---- MODULE Spec2Model ----
(***************************************************************************)
(* A model of pulp_deb's synchronisation pipeline                          *)
(* (pulp_deb/app/tasks/synchronizing.py).                                  *)
(*                                                                         *)
(* Strings are real strings: paths, file names and whitespace separated    *)
(* catalogs are taken apart character by character, as os.path and         *)
(* str.split do.  File contents are strings too: "gz(x)" is the gzip       *)
(* compression of x, "signed(x)" a clear-signed x, "sig(x)" a detached     *)
(* signature of x, and the sha256 of x is "sha256:x" (injective, as the    *)
(* code assumes of sha256).                                                *)
(***************************************************************************)
EXTENDS Integers, Sequences, FiniteSets, TLC

(***************************************************************************)
(* Python string helpers                                                   *)
(*                                                                         *)
(* A helper hands its arguments to a local function, f[s], so that an      *)
(* argument is evaluated once, as Python evaluates the arguments of a      *)
(* call before the call.                                                   *)
(***************************************************************************)

\* s[i] for a 1-based i
Char(s, i) == SubSeq(s, i, i)

RECURSIVE RFindFrom(_, _, _)
RFindFrom(s, c, i) ==
    IF i = 0 THEN 0
    ELSE IF Char(s, i) = c THEN i
    ELSE RFindFrom(s, c, i - 1)

\* str.rfind, 1-based, 0 when c does not occur
RFind(s, c) ==
    LET rfind[str \in STRING] == RFindFrom(str, c, Len(str))
    IN  rfind[s]

startswith(s, prefix) ==
    LET starts[str \in STRING, pre \in STRING] ==
            /\ Len(pre) <= Len(str)
            /\ SubSeq(str, 1, Len(pre)) = pre
    IN  starts[s, prefix]

endswith(s, suffix) ==
    LET ends[str \in STRING, suf \in STRING] ==
            /\ Len(suf) <= Len(str)
            /\ SubSeq(str, Len(str) - Len(suf) + 1, Len(str)) = suf
    IN  ends[s, suffix]

RECURSIVE RStrip(_, _)
RStrip(s, c) ==
    IF Len(s) > 0 /\ Char(s, Len(s)) = c
    THEN RStrip(SubSeq(s, 1, Len(s) - 1), c)
    ELSE s

RECURSIVE LStrip(_, _)
LStrip(s, c) ==
    IF Len(s) > 0 /\ Char(s, 1) = c
    THEN LStrip(SubSeq(s, 2, Len(s)), c)
    ELSE s

\* str.strip(c)
Strip(s, c) == LStrip(RStrip(s, c), c)

\* os.path.basename
basename(p) ==
    LET tail[path \in STRING] == SubSeq(path, RFind(path, "/") + 1, Len(path))
    IN  tail[p]

\* os.path.dirname
dirname(p) ==
    LET strip[head \in STRING, stripped \in STRING] ==
            IF stripped = "" THEN head ELSE stripped
        dir[head \in STRING] == strip[head, RStrip(head, "/")]
        split_head[path \in STRING] == dir[SubSeq(path, 1, RFind(path, "/"))]
    IN  split_head[p]

\* os.path.join of two parts
join(a, b) ==
    LET joined[x \in STRING, y \in STRING] ==
            IF startswith(y, "/") THEN y
            ELSE IF x = "" \/ endswith(x, "/") THEN x \o y
            ELSE x \o "/" \o y
    IN  joined[a, b]

join3(a, b, c) == join(join(a, b), c)

RECURSIVE AllDots(_, _, _)
AllDots(p, from, to) ==
    IF from >= to THEN TRUE
    ELSE IF Char(p, from) # "." THEN FALSE
    ELSE AllDots(p, from + 1, to)

\* os.path.splitext(p)[1]
splitext_ext(p) ==
    LET ext[path \in STRING, sepIndex \in Nat, dotIndex \in Nat] ==
            IF dotIndex > sepIndex /\ ~AllDots(path, sepIndex + 1, dotIndex)
            THEN SubSeq(path, dotIndex, Len(path))
            ELSE ""
        split_ext[path \in STRING] == ext[path, RFind(path, "/"), RFind(path, ".")]
    IN  split_ext[p]

RECURSIVE SplitFrom(_, _, _, _)
SplitFrom(s, sep, i, cur) ==
    IF i > Len(s) THEN <<cur>>
    ELSE IF Char(s, i) = sep THEN <<cur>> \o SplitFrom(s, sep, i + 1, "")
    ELSE SplitFrom(s, sep, i + 1, cur \o Char(s, i))

\* str.split(sep): the pieces between separators, empty ones included
SplitOn(s, sep) ==
    LET pieces[str \in STRING] == SplitFrom(str, sep, 1, "")
    IN  pieces[s]

\* str.split(): the whitespace separated tokens
split(s) == SelectSeq(SplitOn(s, " "), LAMBDA t : t # "")

RECURSIVE JoinWith(_, _)
JoinWith(parts, sep) ==
    IF parts = <<>> THEN ""
    ELSE IF Len(parts) = 1 THEN parts[1]
    ELSE parts[1] \o sep \o JoinWith(Tail(parts), sep)

RECURSIVE NormParts(_, _)
NormParts(parts, acc) ==
    IF parts = <<>> THEN acc
    ELSE LET h == Head(parts)
         IN  IF h = "" \/ h = "." THEN NormParts(Tail(parts), acc)
             ELSE IF h = ".." /\ acc # <<>> /\ acc[Len(acc)] # ".."
                  THEN NormParts(Tail(parts), SubSeq(acc, 1, Len(acc) - 1))
             ELSE NormParts(Tail(parts), Append(acc, h))

\* os.path.normpath of a relative path
normpath(p) ==
    LET dot[n \in STRING] == IF n = "" THEN "." ELSE n
        joined[parts \in Seq(STRING)] == dot[JoinWith(parts, "/")]
        norm[parts \in Seq(STRING)] == joined[NormParts(parts, <<>>)]
    IN  norm[SplitOn(p, "/")]

\* The characters of the model's strings in code point order
CharOrder == " ()-./0123456789:ABCDEFGHIJKLMNOPQRSTUVWXYZ_abcdefghijklmnopqrstuvwxyz"

RECURSIVE OrdFrom(_, _)
OrdFrom(c, i) ==
    IF i > Len(CharOrder) THEN 0
    ELSE IF Char(CharOrder, i) = c THEN i
    ELSE OrdFrom(c, i + 1)

ord(c) == OrdFrom(c, 1)

RECURSIVE StrLessFrom(_, _, _)
StrLessFrom(a, b, i) ==
    IF i > Len(b) THEN FALSE
    ELSE IF i > Len(a) THEN TRUE
    ELSE IF ord(Char(a, i)) < ord(Char(b, i)) THEN TRUE
    ELSE IF ord(Char(a, i)) > ord(Char(b, i)) THEN FALSE
    ELSE StrLessFrom(a, b, i + 1)

\* a < b for Python strings
StrLess(a, b) ==
    LET less[x \in STRING, y \in STRING] == StrLessFrom(x, y, 1)
    IN  less[a, b]

Range(seq) == {seq[i] : i \in DOMAIN seq}

RECURSIVE SortedSeq(_)
SortedSeq(S) ==
    IF S = {} THEN <<>>
    ELSE LET m == CHOOSE x \in S : \A y \in S \ {x} : StrLess(x, y)
         IN  <<m>> \o SortedSeq(S \ {m})

\* sorted(set(seq))
sorted_set(seq) == SortedSeq(Range(seq))

(***************************************************************************)
(* _filter_split                                                           *)
(***************************************************************************)

\* A filter that compares whole values only, without os.path.basename
_filter_split_exact(values, filter_values) ==
    LET value_list == split(values)
        filter_value_list == split(filter_values)
        filtered_values ==
            IF filter_values = "" THEN value_list
            ELSE SelectSeq(value_list,
                           LAMBDA value : value \in Range(filter_value_list))
    IN  sorted_set(filtered_values)

_filter_split(values, filter_values) ==
    LET value_list == split(values)
        filter_value_list == split(filter_values)
        filtered_values ==
            IF filter_values = "" THEN value_list
            ELSE SelectSeq(value_list,
                           LAMBDA value :
                               \/ value \in Range(filter_value_list)
                               \/ basename(value) \in Range(filter_value_list))
    IN  sorted_set(filtered_values)

(***************************************************************************)
(* Files, digests, compression and signatures                              *)
(***************************************************************************)

\* hashlib.sha256 of a file's bytes
Sha256(content) == "sha256:" \o content

\* gzip / bz2 / lzma .open(file): the wrapped bytes, or an error when the
\* bytes are not of that format
CompressorTag(ext) ==
    IF ext = ".gz" THEN "gz("
    ELSE IF ext = ".bz2" THEN "bz2("
    ELSE "xz("

CanDecompress(ext, content) ==
    startswith(content, CompressorTag(ext)) /\ endswith(content, ")")

Decompress(ext, content) ==
    SubSeq(content, Len(CompressorTag(ext)) + 1, Len(content) - 1)

\* gpg.verify_file(signature, data_filename).valid
VerifyDetached(signature, data) == signature = "sig(" \o data \o ")"

\* gpg.verify_file(clear_signed).valid
VerifyClearSigned(content) ==
    startswith(content, "signed(") /\ endswith(content, ")")

\* The document inside a file that deb822 reads: a clear-signed (or
\* tampered) file carries its document between the armour lines
Document(content) ==
    IF startswith(content, "signed(") /\ endswith(content, ")")
    THEN SubSeq(content, 8, Len(content) - 1)
    ELSE IF startswith(content, "tampered(") /\ endswith(content, ")")
    THEN SubSeq(content, 10, Len(content) - 1)
    ELSE content

(***************************************************************************)
(* State                                                                   *)
(***************************************************************************)

VARIABLES
    remote,                 \* the AptRemote: immutable during one sync
    world,                  \* what the remote repository serves
    units,                  \* every DeclarativeContent created so far
    in_q,                   \* in_q[i]: the queue read by pipeline stage i
    tasks,                  \* the coroutines of DebFirstStage
    failure,                \* the exception that ended the sync, and where
    release_file_artifact   \* local of DebUpdateReleaseFileAttributes.run

vars == <<remote, world, units, in_q, tasks, failure, release_file_artifact>>

\* No exception has ended the sync
NoFailure == [exc |-> "none", stage |-> "", unit |-> 0, code |-> 0, arg |-> ""]

NoArtifact == [state |-> "None", sha256 |-> "", file |-> ""]
Unbound == [state |-> "unbound", sha256 |-> "", file |-> ""]

\* Artifact(**checksums): not saved, nothing downloaded yet
NewArtifact(sha256) == [state |-> "unsaved", sha256 |-> sha256, file |-> ""]

SavedArtifact(content) ==
    [state |-> "saved", sha256 |-> Sha256(content), file |-> content]

\* bool(d_artifact.artifact)
Truthy(artifact) == artifact.state # "None"

DArtifact(artifact, url, relative_path, failsafe, deferred_download) ==
    [artifact |-> artifact, url |-> url, relative_path |-> relative_path,
     failsafe |-> failsafe, deferred_download |-> deferred_download]

RECURSIVE RemoveFirst(_, _)
RemoveFirst(seq, x) ==
    IF seq = <<>> THEN <<>>
    ELSE IF Head(seq) = x THEN Tail(seq)
    ELSE <<Head(seq)>> \o RemoveFirst(Tail(seq), x)

(***************************************************************************)
(* The pipeline                                                            *)
(***************************************************************************)

\* A stage list that verifies release files before the failed candidates
\* are pruned
pipeline_stages_verifier_early ==
    << "DebFirstStage",
       "QueryExistingArtifacts",
       "ArtifactDownloader",
       "DebUpdateReleaseFileAttributes",
       "DebDropFailedArtifacts",
       "ArtifactSaver",
       "DebUpdatePackageIndexAttributes",
       "QueryExistingContents",
       "ContentSaver",
       "RemoteArtifactSaver",
       "ResolveContentFutures" >>

\* DebDeclarativeVersion.pipeline_stages
pipeline_stages ==
    << "DebFirstStage",
       "QueryExistingArtifacts",
       "ArtifactDownloader",
       "DebDropFailedArtifacts",
       "ArtifactSaver",
       "DebUpdateReleaseFileAttributes",
       "DebUpdatePackageIndexAttributes",
       "QueryExistingContents",
       "ContentSaver",
       "RemoteArtifactSaver",
       "ResolveContentFutures" >>

NStages == Len(pipeline_stages)

\* A DeclarativeContent: its content's fields, its d_artifacts and its
\* resolution future.  passed lists the stages that have handled it.
BlankUnit ==
    [kind |-> "", parent |-> 0, task |-> "",
     distribution |-> "", component |-> "", architecture |-> "", infix |-> "",
     relative_path |-> "", sha256 |-> "",
     components |-> "", architectures |-> "",
     release_component |-> 0,
     d_artifacts |-> <<>>,
     resolution |-> "pending",
     passed |-> <<>>]

\* Stage i has a unit to read and the pipeline has not failed
Ready(i, name) ==
    /\ failure = NoFailure
    /\ i \in 2..NStages
    /\ pipeline_stages[i] = name
    /\ in_q[i] # <<>>

Handled(i, d) == [d EXCEPT !.passed = Append(@, pipeline_stages[i])]

\* Stage.put: the unit leaves stage i for the next queue
put(i, id, d) ==
    /\ units' = [units EXCEPT ![id] = Handled(i, d)]
    /\ in_q' = [in_q EXCEPT ![i] = Tail(@), ![i + 1] = Append(@, id)]
    /\ failure' = failure

\* The stage ends its handling of the unit without putting it
drop(i, id, d) ==
    /\ units' = [units EXCEPT ![id] = Handled(i, d)]
    /\ in_q' = [in_q EXCEPT ![i] = Tail(@)]
    /\ failure' = failure

\* What the message of the exception names: NoReleaseFile(distribution=...)
\* and NoPackageIndexFile(relative_dir=...)
ExceptionArg(exc, d) ==
    IF exc = "NoReleaseFile" THEN d.distribution
    ELSE IF exc = "NoPackageIndexFile" THEN dirname(d.relative_path)
    ELSE ""

\* The stage raises while handling the unit: create_pipeline cancels every
\* other stage and the sync fails with exc
raise(i, id, d, exc, code) ==
    /\ units' = [units EXCEPT ![id] = Handled(i, d)]
    /\ in_q' = [in_q EXCEPT ![i] = Tail(@)]
    /\ failure' = [exc |-> exc, stage |-> pipeline_stages[i], unit |-> id,
                   code |-> code, arg |-> ExceptionArg(exc, d)]

\* The generic pulpcore stages that hand every unit on unchanged
PassThroughStages ==
    {"QueryExistingArtifacts", "ArtifactSaver", "QueryExistingContents",
     "ContentSaver", "RemoteArtifactSaver"}

PassThrough_run(i) ==
    /\ \E name \in PassThroughStages : Ready(i, name)
    /\ put(i, Head(in_q[i]), units[Head(in_q[i])])
    /\ UNCHANGED <<remote, world, tasks, release_file_artifact>>

\* DeclarativeArtifact.download: the downloader's outcome for one candidate
super_download(da) ==
    IF da.url \in world.errors THEN [exc |-> "ClientResponseError", code |-> 500, artifact |-> da.artifact]
    ELSE IF da.url \notin DOMAIN world.files
    THEN [exc |-> "ClientResponseError", code |-> 404, artifact |-> da.artifact]
    ELSE IF da.artifact.sha256 # "" /\ Sha256(world.files[da.url]) # da.artifact.sha256
    THEN [exc |-> "DigestValidationError", code |-> 0, artifact |-> da.artifact]
    ELSE [exc |-> "none", code |-> 200, artifact |-> SavedArtifact(world.files[da.url])]

\* A download that tolerates 404 only: a digest mismatch is raised
failsafe_download_404_only(da) ==
    LET r == super_download(da)
    IN  IF r.exc = "ClientResponseError" /\ r.code = 404
        THEN [exc |-> "none", code |-> r.code, artifact |-> NoArtifact]
        ELSE r

\* DeclarativeFailsafeArtifact.download
failsafe_download(da) ==
    LET r == super_download(da)
    IN  IF r.exc = "ClientResponseError"
        THEN IF r.code = 404
             THEN [exc |-> "none", code |-> r.code, artifact |-> NoArtifact]
             ELSE r
        ELSE IF r.exc = "DigestValidationError"
        THEN [exc |-> "none", code |-> r.code, artifact |-> NoArtifact]
        ELSE r

\* What ArtifactDownloader does with one candidate
download(da) ==
    IF da.deferred_download \/ da.artifact.state # "unsaved"
    THEN [exc |-> "none", code |-> 0, artifact |-> da.artifact]
    ELSE IF da.failsafe THEN failsafe_download(da)
    ELSE super_download(da)

ArtifactDownloader_run(i) ==
    /\ Ready(i, "ArtifactDownloader")
    /\ LET id == Head(in_q[i])
           d == units[id]
           results == [k \in DOMAIN d.d_artifacts |-> download(d.d_artifacts[k])]
           failed == {k \in DOMAIN results : results[k].exc # "none"}
           after == [k \in DOMAIN results |->
                        [d.d_artifacts[k] EXCEPT !.artifact = results[k].artifact]]
       IN  IF failed # {}
           THEN LET r == results[CHOOSE k \in failed : \A j \in failed : k <= j]
                IN  raise(i, id, d, r.exc, r.code)
           ELSE put(i, id, [d EXCEPT !.d_artifacts = after])
    /\ UNCHANGED <<remote, world, tasks, release_file_artifact>>

\* A pruner that drops the candidates that follow a failed one as well
DroppedFailed_after_first(d_artifacts) ==
    LET failed == {k \in DOMAIN d_artifacts : ~Truthy(d_artifacts[k].artifact)}
    IN  IF failed = {} THEN d_artifacts
        ELSE SubSeq(d_artifacts, 1, (CHOOSE k \in failed : \A j \in failed : k <= j) - 1)

\* DebDropFailedArtifacts.run
DroppedFailed(d_artifacts) ==
    SelectSeq(d_artifacts, LAMBDA d_artifact : Truthy(d_artifact.artifact))

DebDropFailedArtifacts_run(i) ==
    /\ Ready(i, "DebDropFailedArtifacts")
    /\ LET id == Head(in_q[i])
           d == units[id]
       IN  put(i, id, [d EXCEPT !.d_artifacts = DroppedFailed(d.d_artifacts)])
    /\ UNCHANGED <<remote, world, tasks, release_file_artifact>>

\* ResolveContentFutures.run
ResolveContentFutures_run(i) ==
    /\ Ready(i, "ResolveContentFutures")
    /\ LET id == Head(in_q[i])
           d == units[id]
       IN  put(i, id, [d EXCEPT !.resolution = "content"])
    /\ UNCHANGED <<remote, world, tasks, release_file_artifact>>

(***************************************************************************)
(* DebUpdateReleaseFileAttributes                                          *)
(***************************************************************************)

\* bool(remote.gpgkey)
HasKey == remote.gpgkey # ""

\* {os.path.basename(da.relative_path): da for da in d_content.d_artifacts}
da_names_of(d_artifacts) ==
    [n \in {basename(d_artifacts[k].relative_path) : k \in DOMAIN d_artifacts} |->
        LET ks == {k \in DOMAIN d_artifacts : basename(d_artifacts[k].relative_path) = n}
        IN  d_artifacts[CHOOSE k \in ks : \A j \in ks : j <= k]]

Choose(s, da) ==
    [s EXCEPT !.artifact = da.artifact, !.relative_path = da.relative_path]

\* A branch on "Release" that leaves a lone "Release.gpg" in the list
ReleaseBranch_keeps_lone_gpg(s, da_names) ==
    IF "Release" \in DOMAIN da_names
    THEN IF "Release.gpg" \in DOMAIN da_names
         THEN IF HasKey
              THEN IF VerifyDetached(da_names["Release.gpg"].artifact.file,
                                     da_names["Release"].artifact.file)
                   THEN Choose(s, da_names["Release"])
                   ELSE [s EXCEPT !.d_artifacts =
                            RemoveFirst(RemoveFirst(@, da_names["Release"]),
                                        da_names["Release.gpg"])]
              ELSE Choose(s, da_names["Release"])
         ELSE IF HasKey
              THEN [s EXCEPT !.exc = "AttributeError"]
              ELSE Choose(s, da_names["Release"])
    ELSE s

\* The branch on "Release" and "Release.gpg"
ReleaseBranch(s, da_names) ==
    IF "Release" \in DOMAIN da_names
    THEN IF "Release.gpg" \in DOMAIN da_names
         THEN IF HasKey
              THEN IF VerifyDetached(da_names["Release.gpg"].artifact.file,
                                     da_names["Release"].artifact.file)
                   THEN Choose(s, da_names["Release"])
                   ELSE [s EXCEPT !.d_artifacts =
                            RemoveFirst(RemoveFirst(@, da_names["Release"]),
                                        da_names["Release.gpg"])]
              ELSE Choose(s, da_names["Release"])
         ELSE IF HasKey
              \* d_content.d_artifacts.delete(...): a list has no delete
              THEN [s EXCEPT !.exc = "AttributeError"]
              ELSE Choose(s, da_names["Release"])
    ELSE IF "Release.gpg" \in DOMAIN da_names
         THEN [s EXCEPT !.d_artifacts = RemoveFirst(@, da_names["Release.gpg"])]
         ELSE s

\* A branch on "InRelease" that keeps and chooses a file whose signature
\* does not verify
InReleaseBranch_unverified(s, da_names) ==
    IF s.exc # "none" THEN s
    ELSE IF "InRelease" \in DOMAIN da_names
    THEN Choose(s, da_names["InRelease"])
    ELSE s

\* A branch on "InRelease" that leaves a file whose signature does not
\* verify in the list
InReleaseBranch_keeps_invalid(s, da_names) ==
    IF s.exc # "none" THEN s
    ELSE IF "InRelease" \in DOMAIN da_names
    THEN IF HasKey
         THEN IF VerifyClearSigned(da_names["InRelease"].artifact.file)
              THEN Choose(s, da_names["InRelease"])
              ELSE s
         ELSE Choose(s, da_names["InRelease"])
    ELSE s

\* The branch on "InRelease"
InReleaseBranch(s, da_names) ==
    IF s.exc # "none" THEN s
    ELSE IF "InRelease" \in DOMAIN da_names
    THEN IF HasKey
         THEN IF VerifyClearSigned(da_names["InRelease"].artifact.file)
              THEN Choose(s, da_names["InRelease"])
              ELSE [s EXCEPT !.d_artifacts = RemoveFirst(@, da_names["InRelease"])]
         ELSE Choose(s, da_names["InRelease"])
    ELSE s

\* The metadata read without the check for an empty candidate list
ReleaseAttributes_unchecked(s) ==
    IF s.exc # "none" THEN s
    ELSE IF s.artifact.state = "unbound" THEN [s EXCEPT !.exc = "UnboundLocalError"]
    ELSE IF Document(s.artifact.file) \notin DOMAIN world.release_docs
    THEN [s EXCEPT !.exc = "KeyError", !.sha256 = s.artifact.sha256]
    ELSE LET release_file_dict == world.release_docs[Document(s.artifact.file)]
         IN  [s EXCEPT !.sha256 = s.artifact.sha256,
                       !.components = release_file_dict.Components,
                       !.architectures = release_file_dict.Architectures]

\* The checks and the metadata read after the two branches
ReleaseAttributes(s) ==
    IF s.exc # "none" THEN s
    ELSE IF s.d_artifacts = <<>> THEN [s EXCEPT !.exc = "NoReleaseFile"]
    ELSE IF s.artifact.state = "unbound" THEN [s EXCEPT !.exc = "UnboundLocalError"]
    ELSE IF Document(s.artifact.file) \notin DOMAIN world.release_docs
    THEN [s EXCEPT !.exc = "KeyError", !.sha256 = s.artifact.sha256]
    ELSE LET release_file_dict == world.release_docs[Document(s.artifact.file)]
         IN  [s EXCEPT !.sha256 = s.artifact.sha256,
                       !.components = release_file_dict.Components,
                       !.architectures = release_file_dict.Architectures]

\* An iteration that looks at "InRelease" first, so that "Release" wins
UpdateReleaseFile_release_last(d, artifact) ==
    LET s0 == [exc |-> "none", d_artifacts |-> d.d_artifacts, artifact |-> artifact,
               relative_path |-> d.relative_path, sha256 |-> d.sha256,
               components |-> d.components, architectures |-> d.architectures]
        da_names == da_names_of(d.d_artifacts)
        s1 == InReleaseBranch(s0, da_names)
        s2 == ReleaseBranch(s1, da_names_of(s1.d_artifacts))
    IN  ReleaseAttributes(s2)

\* One iteration of the loop for a ReleaseFile unit d, entered with the
\* value the local release_file_artifact has from earlier iterations
UpdateReleaseFile(d, artifact) ==
    LET s0 == [exc |-> "none", d_artifacts |-> d.d_artifacts, artifact |-> artifact,
               relative_path |-> d.relative_path, sha256 |-> d.sha256,
               components |-> d.components, architectures |-> d.architectures]
        da_names == da_names_of(d.d_artifacts)
    IN  ReleaseAttributes(InReleaseBranch(ReleaseBranch(s0, da_names), da_names))

DebUpdateReleaseFileAttributes_run(i) ==
    /\ Ready(i, "DebUpdateReleaseFileAttributes")
    /\ LET id == Head(in_q[i])
           d == units[id]
       IN  IF d.kind # "ReleaseFile"
           THEN put(i, id, d) /\ UNCHANGED release_file_artifact
           ELSE LET s == UpdateReleaseFile(d, release_file_artifact)
                    after == [d EXCEPT !.d_artifacts = s.d_artifacts,
                                       !.relative_path = s.relative_path,
                                       !.sha256 = s.sha256,
                                       !.components = s.components,
                                       !.architectures = s.architectures]
                IN  /\ release_file_artifact' = s.artifact
                    /\ IF s.exc # "none"
                       THEN raise(i, id, after, s.exc, 0)
                       ELSE put(i, id, after)
    /\ UNCHANGED <<remote, world, tasks>>

(***************************************************************************)
(* DebUpdatePackageIndexAttributes                                         *)
(***************************************************************************)

Compressed == {".gz", ".bz2", ".xz"}

\* A resolver that looks for ".gz" first, then ".bz2", then ".xz", whatever
\* the order of the list
_uncompress_artifact_by_extension(d_artifacts) ==
    LET with(ext) == {k \in DOMAIN d_artifacts :
                         splitext_ext(d_artifacts[k].relative_path) = ext}
        ks == IF with(".gz") # {} THEN with(".gz")
              ELSE IF with(".bz2") # {} THEN with(".bz2")
              ELSE with(".xz")
    IN  IF ks = {} THEN [exc |-> "NoPackageIndexFile", content |-> ""]
        ELSE LET d_artifact == d_artifacts[CHOOSE k \in ks : \A j \in ks : k <= j]
                 ext == splitext_ext(d_artifact.relative_path)
             IN  IF CanDecompress(ext, d_artifact.artifact.file)
                 THEN [exc |-> "none",
                       content |-> Decompress(ext, d_artifact.artifact.file)]
                 ELSE [exc |-> "OSError", content |-> ""]

\* _uncompress_artifact: the bytes written to the temporary file
_uncompress_artifact(d_artifacts) ==
    LET ks == {k \in DOMAIN d_artifacts :
                  splitext_ext(d_artifacts[k].relative_path) \in Compressed}
    IN  IF ks = {} THEN [exc |-> "NoPackageIndexFile", content |-> ""]
        ELSE LET d_artifact == d_artifacts[CHOOSE k \in ks : \A j \in ks : k <= j]
                 ext == splitext_ext(d_artifact.relative_path)
             IN  IF CanDecompress(ext, d_artifact.artifact.file)
                 THEN [exc |-> "none",
                       content |-> Decompress(ext, d_artifact.artifact.file)]
                 ELSE [exc |-> "OSError", content |-> ""]

\* An artifact made of the decompressed bytes without validation
init_unvalidated(content, sha256) ==
    [exc |-> "none", artifact |-> SavedArtifact(content)]

\* An artifact made of any bytes that are not empty, whatever their digest
init_and_validate_nonempty(content, sha256) ==
    IF content # ""
    THEN [exc |-> "none", artifact |-> SavedArtifact(content)]
    ELSE [exc |-> "DigestValidationError", artifact |-> NoArtifact]

\* Artifact.init_and_validate(filename, expected_digests={"sha256": ...})
init_and_validate(content, sha256) ==
    IF Sha256(content) = sha256
    THEN [exc |-> "none", artifact |-> SavedArtifact(content)]
    ELSE [exc |-> "DigestValidationError", artifact |-> NoArtifact]

HasMainArtifact(d) ==
    \E k \in DOMAIN d.d_artifacts : d.d_artifacts[k].artifact.sha256 = d.sha256

\* A stage without the test for an empty candidate list
DebUpdatePackageIndexAttributes_run_unchecked(i) ==
    /\ Ready(i, "DebUpdatePackageIndexAttributes")
    /\ LET id == Head(in_q[i])
           d == units[id]
       IN  IF d.kind # "PackageIndex" THEN put(i, id, d)
           ELSE IF HasMainArtifact(d) THEN put(i, id, d)
           ELSE LET u == _uncompress_artifact(d.d_artifacts)
                    v == init_and_validate(u.content, d.sha256)
                    da == DArtifact(v.artifact, "tmp", d.relative_path, FALSE, FALSE)
                IN  IF u.exc # "none" THEN raise(i, id, d, u.exc, 0)
                    ELSE IF v.exc # "none" THEN raise(i, id, d, v.exc, 0)
                    ELSE put(i, id, [d EXCEPT !.d_artifacts = Append(@, da)])
    /\ UNCHANGED <<remote, world, tasks, release_file_artifact>>

\* The stage with the empty unit left behind, its future unresolved
DebUpdatePackageIndexAttributes_run_unresolved(i) ==
    /\ Ready(i, "DebUpdatePackageIndexAttributes")
    /\ LET id == Head(in_q[i])
           d == units[id]
       IN  IF d.kind # "PackageIndex" THEN put(i, id, d)
           ELSE IF d.d_artifacts = <<>>
           THEN drop(i, id, d)
           ELSE IF HasMainArtifact(d) THEN put(i, id, d)
           ELSE LET u == _uncompress_artifact(d.d_artifacts)
                    v == init_and_validate(u.content, d.sha256)
                    da == DArtifact(v.artifact, "tmp", d.relative_path, FALSE, FALSE)
                IN  IF u.exc # "none" THEN raise(i, id, d, u.exc, 0)
                    ELSE IF v.exc # "none" THEN raise(i, id, d, v.exc, 0)
                    ELSE put(i, id, [d EXCEPT !.d_artifacts = Append(@, da)])
    /\ UNCHANGED <<remote, world, tasks, release_file_artifact>>

DebUpdatePackageIndexAttributes_run(i) ==
    /\ Ready(i, "DebUpdatePackageIndexAttributes")
    /\ LET id == Head(in_q[i])
           d == units[id]
       IN  IF d.kind # "PackageIndex" THEN put(i, id, d)
           ELSE IF d.d_artifacts = <<>>
           THEN drop(i, id, [d EXCEPT !.resolution = "None"])
           ELSE IF HasMainArtifact(d) THEN put(i, id, d)
           ELSE LET u == _uncompress_artifact(d.d_artifacts)
                    v == init_and_validate(u.content, d.sha256)
                    da == DArtifact(v.artifact, "tmp", d.relative_path, FALSE, FALSE)
                IN  IF u.exc # "none" THEN raise(i, id, d, u.exc, 0)
                    ELSE IF v.exc # "none" THEN raise(i, id, d, v.exc, 0)
                    ELSE put(i, id, [d EXCEPT !.d_artifacts = Append(@, da)])
    /\ UNCHANGED <<remote, world, tasks, release_file_artifact>>

(***************************************************************************)
(* DebFirstStage                                                           *)
(***************************************************************************)

\* A coroutine of DebFirstStage: st is created (a coroutine object nobody
\* has awaited), running, done or raised; pc is the await it is suspended at
BlankTask ==
    [fn |-> "", parent |-> "", st |-> "running", pc |-> "start", exc |-> "none",
     arg |-> "",
     distribution |-> "", component |-> "", architecture |-> "", infix |-> "",
     release_file |-> 0, release |-> 0, release_component |-> 0,
     awaiting |-> 0,
     todo |-> <<>>, paragraphs |-> <<>>, file_list |-> <<>>,
     package_futures |-> <<>>, k |-> 1, package_class |-> "unbound"]

Running(t, fn, pc) ==
    /\ failure = NoFailure
    /\ t \in DOMAIN tasks
    /\ tasks[t].fn = fn
    /\ tasks[t].st = "running"
    /\ tasks[t].pc = pc

Children(t) == {c \in DOMAIN tasks : tasks[c].parent = t}

\* A resolution that is not awaited
Resolved_unawaited(id) == TRUE

\* d_content.resolution() has completed
Resolved(id) == units[id].resolution # "pending"

\* Stage.put of the first stage: a new unit enters the pipeline
emit(u) ==
    /\ units' = Append(units, [u EXCEPT !.passed = <<pipeline_stages[1]>>])
    /\ in_q' = [in_q EXCEPT ![2] = Append(@, Len(units) + 1)]

\* DebFirstStage._to_d_artifact
_to_d_artifact(relative_path, sha256) ==
    DArtifact(NewArtifact(sha256), join(remote.url_path, relative_path),
              relative_path, TRUE, FALSE)

\* Content.main_artifact: the saved artifact with the unit's sha256
main_artifact(d) ==
    LET ks == {k \in DOMAIN d.d_artifacts : d.d_artifacts[k].artifact.sha256 = d.sha256}
    IN  IF ks = {} THEN NoArtifact
        ELSE d.d_artifacts[CHOOSE k \in ks : \A j \in ks : k <= j].artifact

\* ReleaseComponent.plain_component
plain_component(component) == basename(component)

\* file_references, read from the release file's digest tables
file_references(release_file) ==
    LET doc == Document(main_artifact(release_file).file)
    IN  IF doc \in DOMAIN world.release_docs THEN world.release_docs[doc].refs
        ELSE <<>>

DistTask(distribution) == "d:" \o distribution
CompTask(t, component) == t \o "|c:" \o component
IndexTask(t, architecture, infix) == t \o "|i:" \o architecture \o ":" \o infix
InstallerTask(t, architecture) == t \o "|f:" \o architecture

\* asyncio.gather(*coroutines) by task t: the coroutines become tasks, and
\* t waits for them; with no coroutine at all gather is done at once
Gather(ts, t, children) ==
    IF DOMAIN children = {}
    THEN [ts EXCEPT ![t].st = "done", ![t].pc = "end"]
    ELSE [ts EXCEPT ![t].pc = "gather"] @@ children

\* DebFirstStage.run
run ==
    /\ Running("run", "run", "start")
    /\ LET dists == Range(split(remote.distributions))
           children == [c \in {DistTask(dist) : dist \in dists} |->
                           LET dist == CHOOSE x \in dists : DistTask(x) = c
                           IN  [BlankTask EXCEPT !.fn = "_handle_distribution",
                                                 !.parent = "run",
                                                 !.distribution = dist]]
       IN  tasks' = Gather(tasks, "run", children)
    /\ UNCHANGED <<remote, world, units, in_q, failure, release_file_artifact>>

\* await asyncio.gather(...) returns: every child is done
gather_return(t) ==
    /\ failure = NoFailure
    /\ t \in DOMAIN tasks
    /\ tasks[t].st = "running"
    /\ tasks[t].pc = "gather"
    /\ \A c \in Children(t) : tasks[c].st = "done"
    /\ tasks' = [tasks EXCEPT ![t].st = "done", ![t].pc = "end"]
    /\ UNCHANGED <<remote, world, units, in_q, failure, release_file_artifact>>

\* await asyncio.gather(...) raises the exception of a child; the other
\* children are not cancelled.  When run raises, the first stage has failed
gather_raise(t) ==
    /\ failure = NoFailure
    /\ t \in DOMAIN tasks
    /\ tasks[t].st = "running"
    /\ tasks[t].pc = "gather"
    /\ \E c \in Children(t) :
          /\ tasks[c].st = "raised"
          /\ tasks' = [tasks EXCEPT ![t].st = "raised", ![t].exc = tasks[c].exc,
                                    ![t].arg = tasks[c].arg]
          /\ failure' = IF t = "run"
                        THEN [exc |-> tasks[c].exc, stage |-> pipeline_stages[1],
                              unit |-> 0, code |-> 0, arg |-> tasks[c].arg]
                        ELSE failure
    /\ UNCHANGED <<remote, world, units, in_q, release_file_artifact>>

\* _handle_distribution up to the first await
_handle_distribution_start(t) ==
    /\ Running(t, "_handle_distribution", "start")
    /\ LET distribution == tasks[t].distribution
           release_file_dir ==
               IF Char(distribution, Len(distribution)) = "/"
               THEN Strip(distribution, "/")
               ELSE join("dists", distribution)
           filenames == <<"Release", "InRelease", "Release.gpg">>
           d_artifacts ==
               [k \in DOMAIN filenames |->
                   _to_d_artifact(join(release_file_dir, filenames[k]), "")]
       IN  /\ emit([BlankUnit EXCEPT !.kind = "ReleaseFile", !.task = t,
                                     !.distribution = distribution,
                                     !.d_artifacts = d_artifacts])
           /\ tasks' = [tasks EXCEPT ![t].pc = "release_file",
                                     ![t].awaiting = Len(units) + 1]
    /\ UNCHANGED <<remote, world, failure, release_file_artifact>>

\* release_file = await self._create_unit(release_file_dc), and on
_handle_distribution_release_file(t) ==
    /\ Running(t, "_handle_distribution", "release_file")
    /\ Resolved(tasks[t].awaiting)
    /\ LET release_file == tasks[t].awaiting
       IN  IF units[release_file].resolution = "None"
           THEN /\ tasks' = [tasks EXCEPT ![t].st = "done", ![t].pc = "end"]
                /\ UNCHANGED <<units, in_q>>
           ELSE /\ emit([BlankUnit EXCEPT !.kind = "Release", !.task = t,
                                          !.parent = release_file,
                                          !.distribution = tasks[t].distribution])
                /\ tasks' = [tasks EXCEPT ![t].pc = "release",
                                          ![t].release_file = release_file,
                                          ![t].awaiting = Len(units) + 1]
    /\ UNCHANGED <<remote, world, failure, release_file_artifact>>

\* The component coroutines that _handle_distribution gathers
ComponentTasks(ts, t) ==
    LET release_file == units[ts[t].release_file]
        components == Range(_filter_split(release_file.components, remote.components))
    IN  [c \in {CompTask(t, component) : component \in components} |->
            LET component == CHOOSE x \in components : CompTask(t, x) = c
            IN  [BlankTask EXCEPT !.fn = "_handle_component",
                                  !.parent = t,
                                  !.distribution = ts[t].distribution,
                                  !.component = component,
                                  !.release_file = ts[t].release_file,
                                  !.release = ts[t].release]]

\* One ReleaseArchitecture is put; after the last one the release file is
\* parsed and the components are gathered
PutArchitectures(ts, t, todo) ==
    IF todo = <<>>
    THEN /\ tasks' = Gather(ts, t, ComponentTasks(ts, t))
         /\ UNCHANGED <<units, in_q>>
    ELSE /\ emit([BlankUnit EXCEPT !.kind = "ReleaseArchitecture", !.task = t,
                                   !.parent = ts[t].release,
                                   !.distribution = ts[t].distribution,
                                   !.architecture = Head(todo)])
         /\ tasks' = IF Tail(todo) = <<>>
                     THEN Gather(ts, t, ComponentTasks(ts, t))
                     ELSE [ts EXCEPT ![t].pc = "architectures", ![t].todo = Tail(todo)]

\* release = await self._create_unit(release_dc), and on to the first put
_handle_distribution_release(t) ==
    /\ Running(t, "_handle_distribution", "release")
    /\ Resolved(tasks[t].awaiting)
    /\ LET release_file == units[tasks[t].release_file]
       IN  PutArchitectures([tasks EXCEPT ![t].release = tasks[t].awaiting], t,
               _filter_split(release_file.architectures, remote.architectures))
    /\ UNCHANGED <<remote, world, failure, release_file_artifact>>

\* The next await self.put(release_architecture_dc), and after the last
\* one the gathering of the components
_handle_distribution_architectures(t) ==
    /\ Running(t, "_handle_distribution", "architectures")
    /\ PutArchitectures(tasks, t, tasks[t].todo)
    /\ UNCHANGED <<remote, world, failure, release_file_artifact>>

(***************************************************************************)
(* _handle_component                                                       *)
(***************************************************************************)

_handle_component_start(t) ==
    /\ Running(t, "_handle_component", "start")
    /\ emit([BlankUnit EXCEPT !.kind = "ReleaseComponent", !.task = t,
                              !.parent = tasks[t].release,
                              !.distribution = tasks[t].distribution,
                              !.component = tasks[t].component])
    /\ tasks' = [tasks EXCEPT ![t].pc = "release_component",
                              ![t].awaiting = Len(units) + 1]
    /\ UNCHANGED <<remote, world, failure, release_file_artifact>>

\* Coroutine objects for the binary package indices only, also with udebs
PendingTasks_no_udebs(t, release_component, st) ==
    LET release_file == units[tasks[t].release_file]
        architectures ==
            Range(_filter_split(release_file.architectures, remote.architectures))
        infixes == {""}
        child == [BlankTask EXCEPT !.parent = t, !.st = st,
                                   !.distribution = tasks[t].distribution,
                                   !.component = tasks[t].component,
                                   !.release_file = tasks[t].release_file,
                                   !.release = tasks[t].release,
                                   !.release_component = release_component]
        indices ==
            [c \in {IndexTask(t, a, x) : a \in architectures, x \in infixes} |->
                LET ax == CHOOSE ax \in architectures \X infixes :
                              IndexTask(t, ax[1], ax[2]) = c
                IN  [child EXCEPT !.fn = "_handle_package_index",
                                  !.architecture = ax[1], !.infix = ax[2]]]
        installers ==
            [c \in {InstallerTask(t, a) : a \in architectures} |->
                LET a == CHOOSE a \in architectures : InstallerTask(t, a) = c
                IN  [child EXCEPT !.fn = "_handle_installer_file_index",
                                  !.architecture = a]]
    IN  IF remote.sync_installer THEN indices @@ installers ELSE indices

\* pending_tasks: the coroutine objects _handle_component creates
PendingTasks(t, release_component, st) ==
    LET release_file == units[tasks[t].release_file]
        architectures ==
            Range(_filter_split(release_file.architectures, remote.architectures))
        infixes == IF remote.sync_udebs THEN {"", "debian-installer"} ELSE {""}
        child == [BlankTask EXCEPT !.parent = t, !.st = st,
                                   !.distribution = tasks[t].distribution,
                                   !.component = tasks[t].component,
                                   !.release_file = tasks[t].release_file,
                                   !.release = tasks[t].release,
                                   !.release_component = release_component]
        indices ==
            [c \in {IndexTask(t, a, x) : a \in architectures, x \in infixes} |->
                LET ax == CHOOSE ax \in architectures \X infixes :
                              IndexTask(t, ax[1], ax[2]) = c
                IN  [child EXCEPT !.fn = "_handle_package_index",
                                  !.architecture = ax[1], !.infix = ax[2]]]
        installers ==
            [c \in {InstallerTask(t, a) : a \in architectures} |->
                LET a == CHOOSE a \in architectures : InstallerTask(t, a) = c
                IN  [child EXCEPT !.fn = "_handle_installer_file_index",
                                  !.architecture = a]]
    IN  IF remote.sync_installer THEN indices @@ installers ELSE indices

\* release_component = await self._create_unit(release_component_dc), and on
_handle_component_release_component(t) ==
    /\ Running(t, "_handle_component", "release_component")
    /\ Resolved(tasks[t].awaiting)
    /\ LET ts == [tasks EXCEPT ![t].release_component = tasks[t].awaiting]
       IN  IF remote.sync_sources
           THEN tasks' = [ts EXCEPT ![t].st = "raised",
                                    ![t].exc = "NotImplementedError"]
                         @@ PendingTasks(t, tasks[t].awaiting, "created")
           ELSE tasks' = Gather(ts, t, PendingTasks(t, tasks[t].awaiting, "running"))
    /\ UNCHANGED <<remote, world, units, in_q, failure, release_file_artifact>>

(***************************************************************************)
(* _handle_package_index                                                   *)
(***************************************************************************)

IsFlat(distribution) == Char(distribution, Len(distribution)) = "/"

Finish(t) == [tasks EXCEPT ![t].st = "done", ![t].pc = "end"]

Fail(t, exc, arg) ==
    [tasks EXCEPT ![t].st = "raised", ![t].exc = exc, ![t].arg = arg]

\* _get_checksums, for the one checksum the model follows
_get_checksums(unit_dict) ==
    IF "SHA256" \in DOMAIN unit_dict THEN unit_dict.SHA256 ELSE ""

\* deb822.Packages.iter_paragraphs(file): bytes that are no package index
\* hold no paragraph
iter_paragraphs(content) ==
    IF content \in DOMAIN world.packages_docs THEN world.packages_docs[content]
    ELSE <<>>

\* serializer.is_valid: the mapper wants the fields of a binary package
is_valid(package_paragraph) == "Version" \in DOMAIN package_paragraph

deferred_download == remote.policy # "immediate"

IndexFiles == <<"Packages", "Packages.gz", "Packages.xz", "Release">>

package_index_dir_of(t) ==
    IF IsFlat(tasks[t].distribution) THEN ""
    ELSE join3(plain_component(units[tasks[t].release_component].component),
               tasks[t].infix,
               "binary-" \o tasks[t].architecture)

\* The d_artifacts of the PackageIndex unit of task t
IndexArtifacts(t) ==
    LET release_file == units[tasks[t].release_file]
        release_base_path == dirname(release_file.relative_path)
        refs == file_references(release_file)
        referenced == SelectSeq(IndexFiles,
                          LAMBDA filename :
                              join(package_index_dir_of(t), filename) \in DOMAIN refs)
    IN  [k \in DOMAIN referenced |->
            _to_d_artifact(
                join(release_base_path, join(package_index_dir_of(t), referenced[k])),
                refs[join(package_index_dir_of(t), referenced[k])])]

_handle_package_index_start(t) ==
    /\ Running(t, "_handle_package_index", "start")
    /\ LET release_file == units[tasks[t].release_file]
           release_base_path == dirname(release_file.relative_path)
           d_artifacts == IndexArtifacts(t)
       IN  IF d_artifacts = <<>>
           THEN /\ tasks' = Finish(t)
                /\ UNCHANGED <<units, in_q>>
           ELSE /\ emit([BlankUnit EXCEPT
                            !.kind = "PackageIndex", !.task = t,
                            !.parent = tasks[t].release_component,
                            !.distribution = tasks[t].distribution,
                            !.component = units[tasks[t].release_component].component,
                            !.architecture = tasks[t].architecture,
                            !.infix = tasks[t].infix,
                            !.sha256 = d_artifacts[1].artifact.sha256,
                            !.relative_path =
                                join3(release_base_path, package_index_dir_of(t), "Packages"),
                            !.d_artifacts = d_artifacts])
                /\ tasks' = [tasks EXCEPT ![t].pc = "package_index",
                                          ![t].awaiting = Len(units) + 1]
    /\ UNCHANGED <<remote, world, failure, release_file_artifact>>

\* A coroutine that returns for a package index that is None, whatever
\* the flag is
NoPackageIndex_skips(t) == Finish(t)

\* if not package_index: return when missing package indices are ignored,
\* else raise NoPackageIndexFile(relative_dir=...)
NoPackageIndex(t) ==
    IF remote.ignore_missing_package_indices
    THEN Finish(t)
    ELSE Fail(t, "NoPackageIndexFile",
              join(dirname(units[tasks[t].release_file].relative_path),
                   package_index_dir_of(t)))

\* package_index = await self._create_unit(...), up to the paragraph loop
_handle_package_index_package_index(t) ==
    /\ Running(t, "_handle_package_index", "package_index")
    /\ Resolved(tasks[t].awaiting)
    /\ LET package_index == units[tasks[t].awaiting]
           paragraphs == iter_paragraphs(main_artifact(package_index).file)
       IN  tasks' =
             IF package_index.resolution = "None" THEN NoPackageIndex(t)
             ELSE IF ~HasMainArtifact(package_index) THEN Fail(t, "DoesNotExist", "")
             ELSE IF paragraphs = <<>> THEN Finish(t)
             ELSE [tasks EXCEPT ![t].pc = "parse", ![t].paragraphs = paragraphs]
    /\ UNCHANGED <<remote, world, units, in_q, failure, release_file_artifact>>

\* package_class after the suffix test: a name that is assigned in neither
\* branch keeps the value an earlier paragraph gave it
package_class_of(package_relpath, before) ==
    IF endswith(package_relpath, ".deb") THEN "Package"
    ELSE IF endswith(package_relpath, ".udeb") THEN "InstallerPackage"
    ELSE before

\* The loop body for one paragraph: [exc, package_class, unit or nothing]
HandleParagraph(t, package_paragraph) ==
    LET before == tasks[t].package_class
        no_unit == [exc |-> "none", package_class |-> before, put |-> FALSE,
                    unit |-> BlankUnit]
    IN  IF "Filename" \notin DOMAIN package_paragraph THEN no_unit
        ELSE IF "SHA256" \notin DOMAIN package_paragraph THEN no_unit
        ELSE LET package_relpath == normpath(package_paragraph.Filename)
                 package_class == package_class_of(package_relpath, before)
             IN  IF package_class = "unbound"
                 THEN [no_unit EXCEPT !.exc = "UnboundLocalError"]
                 ELSE IF "Package" \notin DOMAIN package_paragraph
                 THEN [no_unit EXCEPT !.package_class = package_class]
                 ELSE IF ~is_valid(package_paragraph)
                 THEN [no_unit EXCEPT !.package_class = package_class,
                                      !.exc = "ValidationError"]
                 ELSE [exc |-> "none", package_class |-> package_class, put |-> TRUE,
                       unit |-> [BlankUnit EXCEPT
                           !.kind = package_class, !.task = t,
                           !.parent = tasks[t].awaiting,
                           !.distribution = tasks[t].distribution,
                           !.relative_path = package_relpath,
                           !.sha256 = package_paragraph.SHA256,
                           !.d_artifacts =
                               <<DArtifact(NewArtifact(_get_checksums(package_paragraph)),
                                           join(remote.url_path, package_relpath),
                                           package_relpath, FALSE, deferred_download)>>]]

\* After the last paragraph the resolutions are awaited in turn
AfterParagraphs(ts, t) ==
    IF ts[t].package_futures = <<>>
    THEN [ts EXCEPT ![t].st = "done", ![t].pc = "end"]
    ELSE [ts EXCEPT ![t].pc = "assoc", ![t].k = 1]

\* One turn of the loop over the paragraphs
_handle_package_index_parse(t) ==
    /\ Running(t, "_handle_package_index", "parse")
    /\ LET r == HandleParagraph(t, Head(tasks[t].paragraphs))
           ts == [tasks EXCEPT
                     ![t].paragraphs = Tail(@),
                     ![t].package_class = r.package_class,
                     ![t].package_futures =
                         IF r.put THEN Append(@, Len(units) + 1) ELSE @]
       IN  /\ IF r.put THEN emit(r.unit) ELSE UNCHANGED <<units, in_q>>
           /\ tasks' = IF r.exc # "none" THEN Fail(t, r.exc, "")
                       ELSE IF ts[t].paragraphs = <<>> THEN AfterParagraphs(ts, t)
                       ELSE ts
    /\ UNCHANGED <<remote, world, failure, release_file_artifact>>

\* A test that takes an installer package for a package
isinstance_Package_or_udeb(package) ==
    package.resolution = "content" /\ package.kind \in {"Package", "InstallerPackage"}

\* isinstance(package, Package), for the content a unit resolved to
isinstance_Package(package) ==
    package.resolution = "content" /\ package.kind = "Package"

\* A loop that associates the first package each time
_handle_package_index_assoc_first(t) ==
    /\ Running(t, "_handle_package_index", "assoc")
    /\ Resolved(tasks[t].package_futures[tasks[t].k])
    /\ LET package_future == tasks[t].package_futures[1]
           package == units[package_future]
       IN  /\ IF isinstance_Package(package)
              THEN emit([BlankUnit EXCEPT
                            !.kind = "PackageReleaseComponent", !.task = t,
                            !.parent = package_future,
                            !.distribution = tasks[t].distribution,
                            !.relative_path = package.relative_path,
                            !.sha256 = package.sha256,
                            !.release_component = tasks[t].release_component])
              ELSE UNCHANGED <<units, in_q>>
           /\ tasks' = IF tasks[t].k = Len(tasks[t].package_futures)
                       THEN Finish(t)
                       ELSE [tasks EXCEPT ![t].k = @ + 1]
    /\ UNCHANGED <<remote, world, failure, release_file_artifact>>

\* package = await package_future.resolution(), and the association
_handle_package_index_assoc(t) ==
    /\ Running(t, "_handle_package_index", "assoc")
    /\ Resolved(tasks[t].package_futures[tasks[t].k])
    /\ LET package_future == tasks[t].package_futures[tasks[t].k]
           package == units[package_future]
       IN  /\ IF isinstance_Package(package)
              THEN emit([BlankUnit EXCEPT
                            !.kind = "PackageReleaseComponent", !.task = t,
                            !.parent = package_future,
                            !.distribution = tasks[t].distribution,
                            !.relative_path = package.relative_path,
                            !.sha256 = package.sha256,
                            !.release_component = tasks[t].release_component])
              ELSE UNCHANGED <<units, in_q>>
           /\ tasks' = IF tasks[t].k = Len(tasks[t].package_futures)
                       THEN Finish(t)
                       ELSE [tasks EXCEPT ![t].k = @ + 1]
    /\ UNCHANGED <<remote, world, failure, release_file_artifact>>

(***************************************************************************)
(* _handle_installer_file_index                                            *)
(***************************************************************************)

\* InstallerFileIndex.FILE_ALGORITHM, its keys in order
FileAlgorithmKeys == <<"SHA256SUMS", "MD5SUMS">>

FILE_ALGORITHM(filename) ==
    IF filename = "SHA256SUMS" THEN "sha256"
    ELSE IF filename = "MD5SUMS" THEN "md5"
    ELSE ""

installer_file_index_dir_of(t) ==
    join(join3(plain_component(units[tasks[t].release_component].component),
               "installer-" \o tasks[t].architecture,
               "current"),
         "images")

InstallerArtifacts(t) ==
    LET release_file == units[tasks[t].release_file]
        release_base_path == dirname(release_file.relative_path)
        refs == file_references(release_file)
        referenced == SelectSeq(FileAlgorithmKeys,
                          LAMBDA filename :
                              join(installer_file_index_dir_of(t), filename) \in DOMAIN refs)
    IN  [k \in DOMAIN referenced |->
            _to_d_artifact(
                join(release_base_path, join(installer_file_index_dir_of(t), referenced[k])),
                refs[join(installer_file_index_dir_of(t), referenced[k])])]

_handle_installer_file_index_start(t) ==
    /\ Running(t, "_handle_installer_file_index", "start")
    /\ LET release_file == units[tasks[t].release_file]
           release_base_path == dirname(release_file.relative_path)
           d_artifacts == InstallerArtifacts(t)
       IN  IF d_artifacts = <<>>
           THEN /\ tasks' = Finish(t)
                /\ UNCHANGED <<units, in_q>>
           ELSE /\ emit([BlankUnit EXCEPT
                            !.kind = "InstallerFileIndex", !.task = t,
                            !.parent = tasks[t].release_component,
                            !.distribution = tasks[t].distribution,
                            !.component = units[tasks[t].release_component].component,
                            !.architecture = tasks[t].architecture,
                            !.sha256 = d_artifacts[1].artifact.sha256,
                            !.relative_path =
                                join(release_base_path, installer_file_index_dir_of(t)),
                            !.d_artifacts = d_artifacts])
                /\ tasks' = [tasks EXCEPT ![t].pc = "installer_file_index",
                                          ![t].awaiting = Len(units) + 1]
    /\ UNCHANGED <<remote, world, failure, release_file_artifact>>

\* The lines "digest filename" of a manifest
manifest_lines(content) ==
    IF content \in DOMAIN world.sums_docs THEN world.sums_docs[content] ELSE <<>>

RECURSIVE FileList(_, _)
\* file_list: for every file name, in order of first appearance, the digest
\* each manifest gives it ("" for an algorithm no manifest gave)
FileList(entries, acc) ==
    IF entries = <<>> THEN acc
    ELSE LET e == Head(entries)
             ks == {k \in DOMAIN acc : acc[k].filename = e.filename}
         IN  IF ks = {}
             THEN FileList(Tail(entries),
                      Append(acc, [filename |-> e.filename,
                                   sha256 |-> IF e.algorithm = "sha256" THEN e.digest ELSE "",
                                   md5 |-> IF e.algorithm = "md5" THEN e.digest ELSE ""]))
             ELSE LET k == CHOOSE k \in ks : TRUE
                  IN  FileList(Tail(entries),
                          [acc EXCEPT ![k] =
                              IF e.algorithm = "sha256" THEN [@ EXCEPT !.sha256 = e.digest]
                              ELSE [@ EXCEPT !.md5 = e.digest]])

RECURSIVE ManifestEntries(_)
ManifestEntries(d_artifacts) ==
    IF d_artifacts = <<>> THEN <<>>
    ELSE LET content_artifact == Head(d_artifacts)
             algorithm == FILE_ALGORITHM(basename(content_artifact.relative_path))
             lines == SelectSeq(manifest_lines(content_artifact.artifact.file),
                          LAMBDA line : FILE_ALGORITHM(normpath(line.filename)) = "")
         IN  (IF algorithm = "" THEN <<>>
              ELSE [k \in DOMAIN lines |->
                       [algorithm |-> algorithm,
                        digest |-> lines[k].digest,
                        filename |-> normpath(lines[k].filename)]])
             \o ManifestEntries(Tail(d_artifacts))

\* installer_file_index = await self._create_unit(d_content), up to the
\* loop that puts the files
_handle_installer_file_index_installer_file_index(t) ==
    /\ Running(t, "_handle_installer_file_index", "installer_file_index")
    /\ Resolved(tasks[t].awaiting)
    /\ LET installer_file_index == units[tasks[t].awaiting]
           file_list == FileList(ManifestEntries(installer_file_index.d_artifacts), <<>>)
       IN  tasks' =
             IF installer_file_index.resolution = "None" THEN Fail(t, "AttributeError", "")
             ELSE IF file_list = <<>> THEN Finish(t)
             ELSE [tasks EXCEPT ![t].pc = "files", ![t].file_list = file_list]
    /\ UNCHANGED <<remote, world, units, in_q, failure, release_file_artifact>>

\* One turn of the loop over file_list.items()
_handle_installer_file_index_files(t) ==
    /\ Running(t, "_handle_installer_file_index", "files")
    /\ LET entry == Head(tasks[t].file_list)
           installer_file_index == units[tasks[t].awaiting]
           relpath == join(installer_file_index.relative_path, entry.filename)
       IN  IF entry.sha256 = ""
           THEN /\ tasks' = Fail(t, "KeyError", "")
                /\ UNCHANGED <<units, in_q>>
           ELSE /\ emit([BlankUnit EXCEPT
                            !.kind = "GenericContent", !.task = t,
                            !.parent = tasks[t].awaiting,
                            !.distribution = tasks[t].distribution,
                            !.relative_path = relpath,
                            !.sha256 = entry.sha256,
                            !.d_artifacts =
                                <<DArtifact(NewArtifact(entry.sha256),
                                            join(remote.url_path, relpath),
                                            relpath, FALSE, deferred_download)>>])
                /\ tasks' = IF Tail(tasks[t].file_list) = <<>> THEN Finish(t)
                            ELSE [tasks EXCEPT ![t].file_list = Tail(@)]
    /\ UNCHANGED <<remote, world, failure, release_file_artifact>>

(***************************************************************************)
(* The remote repository of a run                                          *)
(*                                                                         *)
(* A run is described by the remote's settings and, for every              *)
(* distribution, by what the repository serves for it: the three release   *)
(* files, the catalogs of the release document, and for the directories    *)
(* of the catalog the index files, manifests and packages.                 *)
(***************************************************************************)

\* The function with the key/value pairs of a set (keys are unique)
FnOf(pairs) ==
    [key \in {pair[1] : pair \in pairs} |->
        (CHOOSE pair \in pairs : pair[1] = key)[2]]

UrlPath == "/deb"

Url(relative_path) == join(UrlPath, relative_path)

ReleaseDir(distribution) ==
    IF IsFlat(distribution) THEN Strip(distribution, "/")
    ELSE join("dists", distribution)

ReleaseDocOf(distribution) == "rel:" \o distribution

\* The served release files of a distribution: url -> bytes
ReleaseFilePairs(distribution, ds) ==
    LET doc == ReleaseDocOf(distribution)
        at(filename) == Url(join(ReleaseDir(distribution), filename))
    IN  (IF ds.Release = "ok" THEN {<<at("Release"), doc>>} ELSE {})
        \cup (IF ds.InRelease = "ok" THEN {<<at("InRelease"), "signed(" \o doc \o ")">>}
              ELSE IF ds.InRelease = "tampered"
              THEN {<<at("InRelease"), "tampered(" \o doc \o ")">>}
              ELSE {})
        \cup (IF ds.gpg = "ok" THEN {<<at("Release.gpg"), "sig(" \o doc \o ")">>}
              ELSE IF ds.gpg = "bad" THEN {<<at("Release.gpg"), "sig(forged)">>}
              ELSE {})

ReleaseErrorUrls(distribution, ds) ==
    IF ds.Release = "error" THEN {Url(join(ReleaseDir(distribution), "Release"))} ELSE {}

\* The package index directories the release document of ds lists
IndexDirs(distribution, ds, udebs) ==
    IF IsFlat(distribution) THEN {[dir |-> "", architecture |-> ""]}
    ELSE {e \in {[dir |-> join3(basename(c), x, "binary-" \o a), architecture |-> a] :
                    c \in Range(split(ds.Components)),
                    a \in Range(split(ds.Architectures)),
                    x \in IF udebs THEN {"", "debian-installer"} ELSE {""}} :
             e.dir \notin ds.unlisted}

\* The state of the index files of an architecture: the files of the
\* architectures in ds.missing are listed by the release document but are
\* not served
IndexStateOf(ds, architecture) ==
    IF architecture \in ds.missing
    THEN [f \in DOMAIN ds.index |->
             IF ds.index[f] \in {"ok", "mismatch"} THEN "missing" ELSE ds.index[f]]
    ELSE ds.index

InstallerDirs(distribution, ds) ==
    {join(join3(basename(c), "installer-" \o a, "current"), "images") :
        c \in Range(split(ds.Components)),
        a \in Range(split(ds.Architectures))}

PackagesDocOf(distribution, dir) == "pkgs:" \o join(distribution, dir)

\* The bytes the repository holds for an index file (what the release
\* document's digest is taken of)
IndexBytes(distribution, dir, ix, filename) ==
    LET doc == PackagesDocOf(distribution, dir)
        body == IF ix.body = "same" THEN doc ELSE "old:" \o doc
    IN  IF filename = "Packages" THEN doc
        ELSE IF filename = "Packages.gz" THEN "gz(" \o body \o ")"
        ELSE IF filename = "Packages.xz" THEN "xz(" \o body \o ")"
        ELSE "dirrel:" \o join(distribution, dir)

\* path -> declared sha256, for the files of a directory: state[filename]
\* is unref, ok, missing or mismatch
RefPairs(dir, filenames, state, bytes) ==
    {<<join(dir, filenames[k]), Sha256(bytes[filenames[k]])>> :
        k \in {k \in DOMAIN filenames : state[filenames[k]] # "unref"}}

\* url -> served bytes, for the files of a directory
ServedPairs(base, dir, filenames, state, bytes) ==
    {<<Url(join(base, join(dir, filenames[k]))),
       IF state[filenames[k]] = "ok" THEN bytes[filenames[k]] ELSE "junk">> :
        k \in {k \in DOMAIN filenames : state[filenames[k]] \in {"ok", "mismatch"}}}

ManifestBytes(distribution, dir, filename) ==
    "sums:" \o join(distribution, join(dir, filename))

\* The release document of a distribution
ReleaseDocument(distribution, ds, sc) ==
    [Components |-> ds.Components,
     Architectures |-> ds.Architectures,
     refs |-> FnOf(
        UNION {RefPairs(e.dir, IndexFiles, IndexStateOf(ds, e.architecture),
                        [f \in Range(IndexFiles) |-> IndexBytes(distribution, e.dir, ds.index, f)]) :
                  e \in IndexDirs(distribution, ds, sc.remote.sync_udebs)}
        \cup
        (IF sc.remote.sync_installer
         THEN UNION {RefPairs(dir, FileAlgorithmKeys, ds.installer,
                              [f \in Range(FileAlgorithmKeys) |-> ManifestBytes(distribution, dir, f)]) :
                        dir \in InstallerDirs(distribution, ds)}
         ELSE {}))]

\* The package file a paragraph names
PoolPairs(paragraphs, pool) ==
    {<<Url(normpath(paragraphs[k].Filename)),
       IF pool = "ok" THEN "deb:" \o paragraphs[k].Filename ELSE "junk">> :
        k \in {k \in DOMAIN paragraphs :
                  "Filename" \in DOMAIN paragraphs[k] /\ pool \in {"ok", "mismatch"}}}

InstallerFile == "./netboot/mini.iso"

\* The lines of every manifest: they name one file
ManifestLines == <<[digest |-> Sha256("iso"), filename |-> InstallerFile]>>

DistFiles(distribution, ds, sc) ==
    LET base == ReleaseDir(distribution)
    IN  ReleaseFilePairs(distribution, ds)
        \cup UNION {ServedPairs(base, e.dir, IndexFiles, IndexStateOf(ds, e.architecture),
                                [f \in Range(IndexFiles) |-> IndexBytes(distribution, e.dir, ds.index, f)]) :
                       e \in IndexDirs(distribution, ds, sc.remote.sync_udebs)}
        \cup PoolPairs(ds.paragraphs, ds.pool)
        \cup (IF sc.remote.sync_installer
              THEN UNION {ServedPairs(base, dir, FileAlgorithmKeys, ds.installer,
                                      [f \in Range(FileAlgorithmKeys) |-> ManifestBytes(distribution, dir, f)])
                          \cup (IF ds.pool = "missing" THEN {}
                                ELSE {<<Url(join(base, join(dir, normpath(InstallerFile)))),
                                        IF ds.pool = "ok" THEN "iso" ELSE "junk">>}) :
                             dir \in InstallerDirs(distribution, ds)}
              ELSE {})

\* The world of a run sc = [remote, dists]
World(sc) ==
    LET names == DOMAIN sc.dists
    IN  [files |-> FnOf(UNION {DistFiles(n, sc.dists[n], sc) : n \in names}),
         errors |-> UNION {ReleaseErrorUrls(n, sc.dists[n]) : n \in names},
         release_docs |->
             [doc \in {ReleaseDocOf(n) : n \in names} |->
                 ReleaseDocument(CHOOSE n \in names : ReleaseDocOf(n) = doc,
                                 sc.dists[CHOOSE n \in names : ReleaseDocOf(n) = doc], sc)],
         packages_docs |->
             FnOf(UNION {{<<PackagesDocOf(n, e.dir), sc.dists[n].paragraphs>> :
                            e \in IndexDirs(n, sc.dists[n], sc.remote.sync_udebs)} :
                         n \in names}),
         sums_docs |->
             FnOf(UNION {{<<ManifestBytes(n, dir, f), ManifestLines>> :
                            dir \in InstallerDirs(n, sc.dists[n]),
                            f \in Range(FileAlgorithmKeys)} :
                         n \in names})]

(***************************************************************************)
(* The runs that are checked                                               *)
(***************************************************************************)

IndexState(packages, gz, xz, release, body) ==
    ("Packages" :> packages) @@ ("Packages.gz" :> gz) @@ ("Packages.xz" :> xz)
    @@ ("Release" :> release) @@ ("body" :> body)

InstallerState(sha256sums, md5sums) ==
    ("SHA256SUMS" :> sha256sums) @@ ("MD5SUMS" :> md5sums)

\* A paragraph of a binary package
Paragraph(name, filename) ==
    [Package |-> name, Filename |-> filename, Version |-> "1.0",
     SHA256 |-> Sha256("deb:" \o filename)]

BaseRemote ==
    [distributions |-> "stable", components |-> "", architectures |-> "",
     gpgkey |-> "", sync_udebs |-> FALSE, sync_installer |-> FALSE,
     sync_sources |-> FALSE, ignore_missing_package_indices |-> FALSE,
     policy |-> "immediate", url_path |-> UrlPath]

BaseDist ==
    [Release |-> "ok", InRelease |-> "missing", gpg |-> "missing",
     Components |-> "main", Architectures |-> "amd64",
     index |-> IndexState("ok", "ok", "unref", "unref", "same"),
     missing |-> {},
     unlisted |-> {},
     installer |-> InstallerState("ok", "unref"),
     paragraphs |-> <<Paragraph("a", "pool/a.deb")>>,
     pool |-> "ok"]

\* A distribution whose release document names no component
BareDist ==
    [BaseDist EXCEPT !.Components = "", !.Architectures = "amd64", !.paragraphs = <<>>]

One(ds) == "stable" :> ds

Run(r, dists) == [remote |-> r, dists |-> dists]

\* Every state of the three release files, with and without a key
ReleaseStates ==
    {[BaseDist EXCEPT !.Release = r, !.InRelease = i, !.gpg = g] :
        r \in {"ok", "missing"}, i \in {"ok", "tampered", "missing"},
        g \in {"ok", "bad", "missing"}}

ReleaseRuns ==
    {Run([BaseRemote EXCEPT !.gpgkey = key], One(ds)) :
        key \in {"", "KEY"}, ds \in ReleaseStates}
    \cup {Run(BaseRemote, One([BaseDist EXCEPT !.Release = "error"]))}

\* Every state of the four index files of a directory
FileStates == {"unref", "ok", "missing", "mismatch"}

IndexStates ==
    {IndexState(p, gz, xz, r, body) :
        p \in FileStates, gz \in FileStates, xz \in FileStates,
        r \in {"unref", "ok", "missing"}, body \in {"same", "stale"}}

IndexRuns ==
    {Run([BaseRemote EXCEPT !.ignore_missing_package_indices = ignore],
         One([BaseDist EXCEPT !.index = ix])) :
        ignore \in BOOLEAN, ix \in IndexStates}

\* Runs with sibling branches: two distributions, two components or two
\* architectures (with and without udebs), one branch of which may fail
Two(ds1, ds2) == ("stable" :> ds1) @@ ("testing" :> ds2)

\* A distribution of two components and two architectures whose release
\* document lists one Packages.gz for each package index directory that is
\* not in unlisted
GzDist(unlisted) ==
    [BaseDist EXCEPT !.Components = "main contrib",
                     !.Architectures = "amd64 arm64",
                     !.index = IndexState("unref", "ok", "unref", "unref", "same"),
                     !.unlisted = unlisted,
                     !.paragraphs = <<>>]

\* Runs over the package index directories of components and
\* architectures, with filters and with udebs
IndexFanOutRuns ==
    {Run(BaseRemote, One(GzDist({})))}
    \cup
    {Run([BaseRemote EXCEPT !.components = "main"], One(GzDist(unlisted))) :
        unlisted \in {{}, {"main/binary-arm64"}}}
    \cup
    {Run([BaseRemote EXCEPT !.components = "main", !.architectures = "arm64"],
         One(GzDist({})))}
    \cup
    {Run([BaseRemote EXCEPT !.sync_udebs = TRUE, !.components = "main",
                            !.architectures = "amd64"],
         One(GzDist(unlisted))) :
        unlisted \in {{}, {"main/debian-installer/binary-amd64"}}}

FanOutRuns ==
    {Run([BaseRemote EXCEPT !.distributions = "stable testing"], Two(BareDist, ds)) :
        ds \in {BareDist, [BareDist EXCEPT !.Release = "missing"]}}
    \cup
    {Run([BaseRemote EXCEPT !.distributions = "stable testing", !.gpgkey = "KEY"],
         Two([BareDist EXCEPT !.Release = "missing", !.InRelease = "ok"], ds)) :
        ds \in {[BareDist EXCEPT !.InRelease = "tampered"],
                [BareDist EXCEPT !.InRelease = "tampered", !.Release = "missing"]}}
    \cup
    {Run([BaseRemote EXCEPT !.sync_sources = src],
         One([BaseDist EXCEPT !.Components = "main contrib",
                              !.index = IndexState("unref", "unref", "unref", "unref", "same")])) :
        src \in BOOLEAN}
    \cup
    {Run([BaseRemote EXCEPT !.sync_udebs = udebs],
         One([BaseDist EXCEPT !.Architectures = a, !.missing = m])) :
        udebs \in {FALSE},
        a \in {"amd64 arm64"},
        m \in {{}, {"amd64"}}}
    \cup
    {Run([BaseRemote EXCEPT !.sync_sources = TRUE, !.components = c], One(ds)) :
        c \in {"", "contrib"}, ds \in {BareDist, BaseDist}}

\* The paragraphs a package index may hold: a package, an installer
\* package, a paragraph without Filename and a file that is neither
ParagraphKinds ==
    {Paragraph("a", "pool/a.deb"),
     Paragraph("b", "pool/b.udeb"),
     [Package |-> "c", Version |-> "1.0", SHA256 |-> Sha256("deb:pool/c.deb")],
     Paragraph("d", "pool/d.txt")}

MaxParagraphs == 2

ParagraphLists ==
    UNION {[1..n -> ParagraphKinds] : n \in 0..MaxParagraphs}

\* Package indices of up to MaxParagraphs paragraphs, whose files are
\* served, not served or served with other bytes, under both policies
PackageRuns ==
    {Run([BaseRemote EXCEPT !.policy = policy],
         One([BaseDist EXCEPT !.paragraphs = ps, !.pool = pool])) :
        policy \in {"immediate", "on_demand"},
        ps \in ParagraphLists,
        pool \in {"ok", "missing", "mismatch"}}

\* The installer manifests in every state
InstallerRuns ==
    {Run([BaseRemote EXCEPT !.sync_installer = TRUE, !.policy = policy],
         One([BaseDist EXCEPT !.installer = InstallerState(s, m), !.pool = pool,
                              !.index = IndexState("unref", "unref", "unref", "unref", "same")])) :
        policy \in {"immediate", "on_demand"},
        s \in FileStates, m \in FileStates,
        pool \in {"ok", "missing", "mismatch"}}

Scenarios == ReleaseRuns \cup FanOutRuns \cup PackageRuns \cup InstallerRuns

\* The state DebDeclarativeVersion.create starts the pipeline in
InitOf(runs) ==
    \E sc \in runs :
        /\ remote = sc.remote
        /\ world = World(sc)
        /\ units = <<>>
        /\ in_q = [i \in 1..(NStages + 1) |-> <<>>]
        /\ tasks = ("run" :> [BlankTask EXCEPT !.fn = "run"])
        /\ failure = NoFailure
        /\ release_file_artifact = Unbound

Init == InitOf(Scenarios)

\* The package index files in every state, and two runs in which the
\* other coroutines of the first stage have work
IndexScenarios ==
    IndexRuns
    \cup {Run(BaseRemote, One([BaseDist EXCEPT !.Architectures = "amd64 arm64"])),
          Run([BaseRemote EXCEPT !.sync_installer = TRUE], One(BaseDist))}
    \cup {Run([BaseRemote EXCEPT !.ignore_missing_package_indices = ignore],
               One([BaseDist EXCEPT !.Architectures = "amd64 arm64",
                                    !.missing = {"amd64"}])) :
             ignore \in BOOLEAN}

InitIndex == InitOf(IndexScenarios)

\* The runs over the package index directories, and two runs in which the
\* other coroutines of the first stage have work
IndexFanOutScenarios ==
    IndexFanOutRuns
    \cup {Run([BaseRemote EXCEPT !.sync_installer = TRUE], One(BaseDist)),
          Run([BaseRemote EXCEPT !.sync_sources = TRUE], One(BaseDist))}

InitIndexFanOut == InitOf(IndexFanOutScenarios)

Next ==
    \/ run
    \/ \E t \in DOMAIN tasks : gather_return(t)
    \/ \E t \in DOMAIN tasks : gather_raise(t)
    \/ \E t \in DOMAIN tasks : _handle_distribution_start(t)
    \/ \E t \in DOMAIN tasks : _handle_distribution_release_file(t)
    \/ \E t \in DOMAIN tasks : _handle_distribution_release(t)
    \/ \E t \in DOMAIN tasks : _handle_distribution_architectures(t)
    \/ \E t \in DOMAIN tasks : _handle_component_start(t)
    \/ \E t \in DOMAIN tasks : _handle_component_release_component(t)
    \/ \E t \in DOMAIN tasks : _handle_package_index_start(t)
    \/ \E t \in DOMAIN tasks : _handle_package_index_package_index(t)
    \/ \E t \in DOMAIN tasks : _handle_package_index_parse(t)
    \/ \E t \in DOMAIN tasks : _handle_package_index_assoc(t)
    \/ \E t \in DOMAIN tasks : _handle_installer_file_index_start(t)
    \/ \E t \in DOMAIN tasks : _handle_installer_file_index_installer_file_index(t)
    \/ \E t \in DOMAIN tasks : _handle_installer_file_index_files(t)
    \/ \E i \in 2..NStages : PassThrough_run(i)
    \/ \E i \in 2..NStages : ArtifactDownloader_run(i)
    \/ \E i \in 2..NStages : DebDropFailedArtifacts_run(i)
    \/ \E i \in 2..NStages : DebUpdateReleaseFileAttributes_run(i)
    \/ \E i \in 2..NStages : DebUpdatePackageIndexAttributes_run(i)
    \/ \E i \in 2..NStages : ResolveContentFutures_run(i)

Spec == Init /\ [][Next]_vars

SpecIndex == InitIndex /\ [][Next]_vars

SpecIndexFanOut == InitIndexFanOut /\ [][Next]_vars

\* The paragraphs of a package index: the four of ParagraphKinds, and
\* paragraphs without Package, without SHA256 and without the Version the
\* mapper wants
IndexParagraphKinds ==
    ParagraphKinds
    \cup {[Filename |-> "pool/e.deb", Version |-> "1.0", SHA256 |-> Sha256("deb:pool/e.deb")],
          [Package |-> "f", Filename |-> "pool/f.deb", Version |-> "1.0"],
          [Package |-> "g", Filename |-> "pool/g.deb", SHA256 |-> Sha256("deb:pool/g.deb")]}

MaxIndexParagraphs == 2

\* One package index with every list of up to MaxIndexParagraphs
\* paragraphs, and two runs in which the other coroutines of the first
\* stage have work
ParagraphScenarios ==
    {Run(BaseRemote, One([BaseDist EXCEPT !.paragraphs = ps])) :
        ps \in UNION {[1..n -> IndexParagraphKinds] : n \in 0..MaxIndexParagraphs}}
    \cup {Run([BaseRemote EXCEPT !.sync_installer = TRUE], One(BaseDist)),
          Run(BaseRemote, One([BaseDist EXCEPT !.Architectures = "amd64 arm64"]))}

InitParagraphs == InitOf(ParagraphScenarios)

SpecParagraphs == InitParagraphs /\ [][Next]_vars

\* Runs for the stages that can end the way of a unit: the Release files
\* in every state for the Verifier, the index files Packages and
\* Packages.gz and the Release file of the directory in every state for
\* the Pruner and the Materializer, and runs in which the other coroutines
\* of the first stage have work
FairScenarios ==
    {Run([BaseRemote EXCEPT !.ignore_missing_package_indices = ignore],
         One([BaseDist EXCEPT !.index = IndexState(p, gz, "unref", r, "same")])) :
        ignore \in BOOLEAN, p \in FileStates, gz \in FileStates,
        r \in {"ok", "missing"}}
    \cup ReleaseRuns
    \cup {Run([BaseRemote EXCEPT !.sync_installer = TRUE], One(BaseDist))}
    \cup {Run([BaseRemote EXCEPT !.ignore_missing_package_indices = ignore],
               One([BaseDist EXCEPT !.Architectures = "amd64 arm64",
                                    !.missing = {"amd64"}])) :
             ignore \in BOOLEAN}

InitFair == InitOf(FairScenarios)

\* A step of the first stage: the event loop runs a coroutine that can go on
FirstStageStep ==
    \/ run
    \/ \E t \in DOMAIN tasks :
          \/ gather_return(t)
          \/ gather_raise(t)
          \/ _handle_distribution_start(t)
          \/ _handle_distribution_release_file(t)
          \/ _handle_distribution_release(t)
          \/ _handle_distribution_architectures(t)
          \/ _handle_component_start(t)
          \/ _handle_component_release_component(t)
          \/ _handle_package_index_start(t)
          \/ _handle_package_index_package_index(t)
          \/ _handle_package_index_parse(t)
          \/ _handle_package_index_assoc(t)
          \/ _handle_installer_file_index_start(t)
          \/ _handle_installer_file_index_installer_file_index(t)
          \/ _handle_installer_file_index_files(t)

\* A step of a later stage: it takes the unit at the head of its queue
LaterStageStep ==
    \E i \in 2..NStages :
        \/ PassThrough_run(i)
        \/ ArtifactDownloader_run(i)
        \/ DebDropFailedArtifacts_run(i)
        \/ DebUpdateReleaseFileAttributes_run(i)
        \/ DebUpdatePackageIndexAttributes_run(i)
        \/ ResolveContentFutures_run(i)

\* The event loop runs every coroutine that can go on: a stage with a unit
\* in its queue handles it, a coroutine of the first stage whose await has
\* completed continues
SpecFair ==
    /\ InitFair
    /\ [][Next]_vars
    /\ WF_vars(FirstStageStep)
    /\ WF_vars(LaterStageStep)

(***************************************************************************)
(* DebUpdateReleaseFileAttributes on its own: the stage reads a queue of   *)
(* up to MaxReleaseFiles ReleaseFile units, one for each distribution of   *)
(* the remote, that the stages before it have handled.                     *)
(***************************************************************************)

MaxReleaseFiles == 2

DistNames == <<"stable", "testing", "unstable", "experimental">>

StageIndex(name) == CHOOSE i \in 1..NStages : pipeline_stages[i] = name

\* The ReleaseFile unit of _handle_distribution, as the stages before
\* stage i leave it
ReleaseFileBefore(i, distribution) ==
    LET filenames == <<"Release", "InRelease", "Release.gpg">>
        d_artifacts ==
            [k \in DOMAIN filenames |->
                _to_d_artifact(join(ReleaseDir(distribution), filenames[k]), "")]
        downloaded ==
            [k \in DOMAIN d_artifacts |->
                [d_artifacts[k] EXCEPT !.artifact = download(d_artifacts[k]).artifact]]
    IN  [BlankUnit EXCEPT !.kind = "ReleaseFile",
                          !.task = DistTask(distribution),
                          !.distribution = distribution,
                          !.d_artifacts = DroppedFailed(downloaded),
                          !.passed = SubSeq(pipeline_stages, 1, i - 1)]

\* The run in which the distributions DistNames[1..n] have the release
\* files in the given states
VerifierRun(key, states) ==
    Run([BaseRemote EXCEPT !.gpgkey = key,
                           !.distributions = JoinWith(SubSeq(DistNames, 1, Len(states)), " ")],
        [name \in {DistNames[k] : k \in DOMAIN states} |->
            states[CHOOSE k \in DOMAIN states : DistNames[k] = name]])

\* The states of the three release files of a distribution
BareReleaseStates ==
    {[BareDist EXCEPT !.Release = ds.Release, !.InRelease = ds.InRelease,
                      !.gpg = ds.gpg] : ds \in ReleaseStates}

InitVerifier ==
    \E key \in {"", "KEY"}, n \in 1..MaxReleaseFiles :
      \E states \in [1..n -> BareReleaseStates] :
        LET i == StageIndex("DebUpdateReleaseFileAttributes")
            sc == VerifierRun(key, states)
        IN  /\ remote = sc.remote
            /\ world = World(sc)
            /\ units = [k \in 1..n |-> ReleaseFileBefore(i, DistNames[k])]
            /\ in_q = [j \in 1..(NStages + 1) |->
                          IF j = i THEN [k \in 1..n |-> k] ELSE <<>>]
            /\ tasks = [t \in {"run"} \cup {DistTask(DistNames[k]) : k \in 1..n} |->
                          IF t = "run"
                          THEN [BlankTask EXCEPT !.fn = "run", !.pc = "gather"]
                          ELSE LET k == CHOOSE k \in 1..n : DistTask(DistNames[k]) = t
                               IN  [BlankTask EXCEPT
                                       !.fn = "_handle_distribution", !.parent = "run",
                                       !.pc = "release_file",
                                       !.distribution = DistNames[k],
                                       !.awaiting = k]]
            /\ failure = NoFailure
            /\ release_file_artifact = Unbound

NextVerifier == \E i \in 2..NStages : DebUpdateReleaseFileAttributes_run(i)

SpecVerifier == InitVerifier /\ [][NextVerifier]_vars


(***************************************************************************)
(* DebUpdatePackageIndexAttributes alone: a PackageIndex unit arrives with *)
(* any list of up to MaxCandidates downloaded candidates, in any order     *)
(***************************************************************************)

MaxCandidates == 3

CandidateNames ==
    {"Packages", "Packages.gz", "Packages.bz2", "Packages.xz", "Release"}

IndexDir == "dists/stable/main/binary-amd64"

\* The bytes of a candidate: a compressed file holds the Packages document
\* (body same) or an older one (body stale)
CandidateBytes(name, body) ==
    LET doc == PackagesDocOf("stable", "main/binary-amd64")
    IN  IF name = "Packages" THEN doc
        ELSE IF name = "Release" THEN "dirrel:stable/main/binary-amd64"
        ELSE CompressorTag(splitext_ext(name))
                \o (IF body = "same" THEN doc ELSE "old:" \o doc) \o ")"

Candidates ==
    {[name |-> n, body |-> b] : n \in CandidateNames, b \in {"same", "stale"}}

\* The candidate as the stages before the Materializer leave it: downloaded
\* and saved
CandidateBefore(c) ==
    [_to_d_artifact(join(IndexDir, c.name), Sha256(CandidateBytes(c.name, c.body)))
        EXCEPT !.artifact = SavedArtifact(CandidateBytes(c.name, c.body))]

PackageIndexBefore(i, candidates, sha256) ==
    [BlankUnit EXCEPT !.kind = "PackageIndex",
                      !.distribution = "stable",
                      !.component = "main",
                      !.architecture = "amd64",
                      !.relative_path = join(IndexDir, "Packages"),
                      !.sha256 = sha256,
                      !.d_artifacts =
                          [k \in DOMAIN candidates |-> CandidateBefore(candidates[k])],
                      !.passed = SubSeq(pipeline_stages, 1, i - 1)]

InitMaterializer ==
    \E n \in 0..MaxCandidates :
      \E candidates \in [1..n -> Candidates] :
        \E declared \in {"Packages", "Packages.gz"} :
          LET i == StageIndex("DebUpdatePackageIndexAttributes")
              sc == Run(BaseRemote, One(BaseDist))
              last == <<[name |-> "Packages", body |-> "same"]>>
          IN  /\ \A j, k \in 1..n :
                    candidates[j].name = candidates[k].name => j = k
              /\ \A k \in 1..n :
                    candidates[k].name \in {"Packages", "Release"} =>
                        candidates[k].body = "same"
              /\ remote = sc.remote
              /\ world = World(sc)
              /\ units =
                    << PackageIndexBefore(i, candidates,
                                          Sha256(CandidateBytes(declared, "same"))),
                       PackageIndexBefore(i, last,
                                          Sha256(CandidateBytes("Packages", "same"))) >>
              /\ in_q = [j \in 1..(NStages + 1) |-> IF j = i THEN <<1, 2>> ELSE <<>>]
              /\ tasks = [t \in {"run"} |->
                            [BlankTask EXCEPT !.fn = "run", !.pc = "gather"]]
              /\ failure = NoFailure
              /\ release_file_artifact = Unbound

NextMaterializer == \E i \in 2..NStages : DebUpdatePackageIndexAttributes_run(i)

SpecMaterializer == InitMaterializer /\ [][NextMaterializer]_vars


(***************************************************************************)
(* _handle_distribution from the resolution of its Release unit on: the    *)
(* release file lists any values, the remote filters by any filter values  *)
(***************************************************************************)

MaxValues == 3
MaxFilterValues == 2

ValueTokens == {"main", "updates/main", "contrib"}
FilterTokens == {"main", "contrib", "universe"}

\* The ReleaseFile unit and the Release unit of the distribution, resolved
ResolvedReleaseFile(values) ==
    LET doc == ReleaseDocOf("stable")
        relative_path == join(ReleaseDir("stable"), "Release")
    IN  [BlankUnit EXCEPT !.kind = "ReleaseFile", !.task = DistTask("stable"),
                          !.distribution = "stable",
                          !.relative_path = relative_path,
                          !.sha256 = Sha256(doc),
                          !.components = values,
                          !.architectures = values,
                          !.d_artifacts =
                              <<[_to_d_artifact(relative_path, "")
                                    EXCEPT !.artifact = SavedArtifact(doc)]>>,
                          !.resolution = "content",
                          !.passed = pipeline_stages]

ResolvedRelease ==
    [BlankUnit EXCEPT !.kind = "Release", !.task = DistTask("stable"),
                      !.parent = 1, !.distribution = "stable",
                      !.resolution = "content", !.passed = pipeline_stages]

InitFilter ==
    \E n \in 0..MaxValues, m \in 0..MaxFilterValues :
      \E vs \in [1..n -> ValueTokens], fs \in [1..m -> FilterTokens] :
        \E sep \in {" ", "  "} :
          LET values == JoinWith(vs, sep)
              filter_values == IF m = 0 /\ sep = "  " THEN " " ELSE JoinWith(fs, sep)
              sc == Run([BaseRemote EXCEPT !.components = filter_values,
                                           !.architectures = filter_values],
                        One([BareDist EXCEPT
                                !.Components = values, !.Architectures = values,
                                !.index = IndexState("unref", "unref", "unref",
                                                     "unref", "same")]))
          IN  /\ remote = sc.remote
              /\ world = World(sc)
              /\ units = <<ResolvedReleaseFile(values), ResolvedRelease>>
              /\ in_q = [j \in 1..(NStages + 1) |-> <<>>]
              /\ tasks = ("run" :> [BlankTask EXCEPT !.fn = "run", !.pc = "gather"])
                         @@ (DistTask("stable") :>
                               [BlankTask EXCEPT !.fn = "_handle_distribution",
                                                 !.parent = "run",
                                                 !.pc = "release",
                                                 !.distribution = "stable",
                                                 !.release_file = 1,
                                                 !.awaiting = 2])
              /\ failure = NoFailure
              /\ release_file_artifact = SavedArtifact(ReleaseDocOf("stable"))

NextFilter ==
    \/ \E t \in DOMAIN tasks : _handle_distribution_release(t)
    \/ \E t \in DOMAIN tasks : _handle_distribution_architectures(t)

SpecFilter == InitFilter /\ [][NextFilter]_vars

(***************************************************************************)
(* Properties                                                              *)
(***************************************************************************)

\* The stage called name has handled unit id
HandledBy(id, name) ==
    \E k \in DOMAIN units[id].passed : units[id].passed[k] = name

\* The stage called name has put unit id into the queue of the next stage
ForwardedBy(id, name) ==
    \E k \in DOMAIN units[id].passed :
        /\ units[id].passed[k] = name
        /\ (k < Len(units[id].passed) \/ id \in Range(in_q[k + 1]))

UnitsOf(kind) == {id \in DOMAIN units : units[id].kind = kind}

\* C1: the stage list is Discovery, artifact existence-check, download,
\* Pruner, artifact persistence, Release Verifier, Materializer, content
\* existence-check, content persistence, remote-artifact persistence and
\* future resolution, in this order; a unit is handled by the Verifier and
\* the Materializer only after download and the Pruner, and by content
\* persistence only after the Materializer.
C1_StageOrder ==
    /\ pipeline_stages =
          << "DebFirstStage", "QueryExistingArtifacts", "ArtifactDownloader",
             "DebDropFailedArtifacts", "ArtifactSaver",
             "DebUpdateReleaseFileAttributes", "DebUpdatePackageIndexAttributes",
             "QueryExistingContents", "ContentSaver", "RemoteArtifactSaver",
             "ResolveContentFutures" >>
    /\ \A id \in DOMAIN units :
          LET passed == units[id].passed
              At(name) == {k \in DOMAIN passed : passed[k] = name}
              After(a, b) == \A k \in At(b) : \E j \in At(a) : j < k
          IN  /\ passed[1] = "DebFirstStage"
              /\ After("ArtifactDownloader", "DebDropFailedArtifacts")
              /\ After("DebDropFailedArtifacts", "DebUpdateReleaseFileAttributes")
              /\ After("DebDropFailedArtifacts", "DebUpdatePackageIndexAttributes")
              /\ After("DebUpdateReleaseFileAttributes", "DebUpdatePackageIndexAttributes")
              /\ After("DebUpdatePackageIndexAttributes", "ContentSaver")
              /\ After("ContentSaver", "ResolveContentFutures")
              /\ \A j \in 2..(NStages + 1) :
                    id \in Range(in_q[j]) => Len(passed) = j - 1

\* A PackageIndex unit and a ReleaseFile unit have passed every stage
C1_Witness ==
    /\ \E id \in UnitsOf("PackageIndex") : Len(units[id].passed) = NStages
    /\ \E id \in UnitsOf("ReleaseFile") : Len(units[id].passed) = NStages

\* The candidate of unit d has passed the verification with the key
Verified(d, da) ==
    IF basename(da.relative_path) = "InRelease"
    THEN VerifyClearSigned(da.artifact.file)
    ELSE \E j \in DOMAIN d.d_artifacts :
            /\ basename(d.d_artifacts[j].relative_path) = "Release.gpg"
            /\ VerifyDetached(d.d_artifacts[j].artifact.file, da.artifact.file)

\* C2: a ReleaseFile unit the Release Verifier has forwarded records the
\* relative_path and the sha256 of one single candidate that is still in
\* its list, is the Release or InRelease of its distribution and, with a
\* key configured, has passed verification.
C2_Representative ==
    \A id \in UnitsOf("ReleaseFile") :
        ForwardedBy(id, "DebUpdateReleaseFileAttributes") =>
            LET d == units[id]
                chosen == {k \in DOMAIN d.d_artifacts :
                              d.d_artifacts[k].relative_path = d.relative_path}
            IN  /\ Cardinality(chosen) = 1
                /\ \A k \in chosen :
                      LET da == d.d_artifacts[k]
                      IN  /\ da.artifact.state = "saved"
                          /\ da.artifact.sha256 = d.sha256
                          /\ basename(da.relative_path) \in {"Release", "InRelease"}
                          /\ dirname(da.relative_path) = ReleaseDir(d.distribution)
                          /\ HasKey => Verified(d, da)

\* With a key, the stage has forwarded two units in a row, the first with
\* InRelease and the second with Release as its representative
C2_Witness ==
    /\ HasKey
    /\ \E id1, id2 \in UnitsOf("ReleaseFile") :
          /\ id1 < id2
          /\ ForwardedBy(id1, "DebUpdateReleaseFileAttributes")
          /\ ForwardedBy(id2, "DebUpdateReleaseFileAttributes")
          /\ basename(units[id1].relative_path) = "InRelease"
          /\ basename(units[id2].relative_path) = "Release"

\* C3: a PackageIndex unit the Materializer has forwarded has a candidate
\* whose sha256 is the unit's declared sha256.
C3_MainArtifact ==
    \A id \in UnitsOf("PackageIndex") :
        ForwardedBy(id, "DebUpdatePackageIndexAttributes") =>
            \E k \in DOMAIN units[id].d_artifacts :
                units[id].d_artifacts[k].artifact.sha256 = units[id].sha256

\* A forwarded PackageIndex unit whose only matching candidate is the one
\* the Materializer made by decompression
C3_Witness ==
    \E id \in UnitsOf("PackageIndex") :
        /\ ForwardedBy(id, "DebUpdatePackageIndexAttributes")
        /\ \A k \in DOMAIN units[id].d_artifacts :
              units[id].d_artifacts[k].artifact.sha256 = units[id].sha256
                  <=> k = Len(units[id].d_artifacts)
        /\ units[id].d_artifacts[Len(units[id].d_artifacts)].url = "tmp"

\* The bytes are those of no compressed file
Uncompressed(content) ==
    \A ext \in Compressed : ~CanDecompress(ext, content)

\* C4: a PackageIndex unit that leaves the Materializer has an uncompressed
\* artifact whose sha256 is the unit's declared sha256, whatever subset of
\* Packages, Packages.gz, Packages.xz and Release the release file lists.
C4_UncompressedArtifact ==
    \A id \in UnitsOf("PackageIndex") :
        ForwardedBy(id, "DebUpdatePackageIndexAttributes") =>
            \E k \in DOMAIN units[id].d_artifacts :
                /\ units[id].d_artifacts[k].artifact.sha256 = units[id].sha256
                /\ Uncompressed(units[id].d_artifacts[k].artifact.file)

\* The download of the candidate finds no file
NotFound(da) ==
    /\ ~da.deferred_download
    /\ da.url \notin world.errors
    /\ da.url \notin DOMAIN world.files

\* The download of the candidate finds bytes of another digest
Mismatch(da) ==
    /\ ~da.deferred_download
    /\ da.url \notin world.errors
    /\ da.url \in DOMAIN world.files
    /\ da.artifact.sha256 # ""
    /\ da.artifact.sha256 # Sha256(world.files[da.url])

\* The download of the candidate fails with another HTTP error
ServerError(da) == ~da.deferred_download /\ da.url \in world.errors

\* The units whose candidates are made by _to_d_artifact
FailsafeKinds == {"ReleaseFile", "PackageIndex", "InstallerFileIndex"}

\* C5 as stated: a download that finds no file or bytes of another digest
\* never fails the sync, whatever the unit.
C5_NeverFatal ==
    ~(/\ failure.stage = "ArtifactDownloader"
      /\ (failure.code = 404 \/ failure.exc = "DigestValidationError"))

\* C5, amended: for the candidates of ReleaseFile, PackageIndex and
\* InstallerFileIndex units a download that finds no file or bytes of another
\* digest is not fatal: the candidate's artifact becomes None, the others are
\* saved and the unit goes on to the Pruner.  For the candidate of any other
\* unit such a download fails the sync.
C5_FailsafeOnly ==
    [][\A i \in 2..NStages :
          (Ready(i, "ArtifactDownloader") /\ Len(in_q'[i]) < Len(in_q[i])) =>
              LET id == Head(in_q[i])
                  d == units[id]
                  das == d.d_artifacts
                  soft == {k \in DOMAIN das : NotFound(das[k]) \/ Mismatch(das[k])}
                  hard == {k \in DOMAIN das : ServerError(das[k])}
              IN  /\ \A k \in DOMAIN das : das[k].failsafe <=> d.kind \in FailsafeKinds
                  /\ (d.kind \in FailsafeKinds /\ hard = {}) =>
                        /\ failure' = NoFailure
                        /\ in_q'[i + 1] = Append(in_q[i + 1], id)
                        /\ \A k \in DOMAIN das :
                              units'[id].d_artifacts[k].artifact =
                                  IF k \in soft THEN NoArtifact
                                  ELSE SavedArtifact(world.files[das[k].url])
                  /\ (d.kind \notin FailsafeKinds /\ soft # {}) =>
                        /\ failure'.stage = "ArtifactDownloader"
                        /\ failure'.unit = id
                        /\ id \notin Range(in_q'[i + 1])]_vars

\* A PackageIndex or InstallerFileIndex unit is on its way to the Pruner
\* with a candidate that was not found or did not match
C5_Witness ==
    \E id \in UnitsOf("InstallerFileIndex") \cup UnitsOf("PackageIndex") :
        /\ ForwardedBy(id, "ArtifactDownloader")
        /\ ~HandledBy(id, "DebDropFailedArtifacts")
        /\ \E k \in DOMAIN units[id].d_artifacts :
              units[id].d_artifacts[k].artifact = NoArtifact

\* The positions of the candidates with an artifact
Kept(d_artifacts) ==
    {k \in DOMAIN d_artifacts : d_artifacts[k].artifact # NoArtifact}

\* C6: the Pruner forwards the unit at the head of its queue, once and
\* behind the units it forwarded before; the unit's list is the received
\* list without the candidates that have no artifact, the others unchanged
\* and in their order; nothing else of the unit changes, it is not resolved
\* and no other unit is touched.
C6_Pruner ==
    [][\A i \in 2..NStages :
          (Ready(i, "DebDropFailedArtifacts") /\ Len(in_q'[i]) < Len(in_q[i])) =>
              LET id == Head(in_q[i])
                  before == units[id].d_artifacts
                  after == units'[id].d_artifacts
              IN  /\ in_q'[i] = Tail(in_q[i])
                  /\ in_q'[i + 1] = Append(in_q[i + 1], id)
                  /\ \A j \in 1..(NStages + 1) : j \notin {i, i + 1} => in_q'[j] = in_q[j]
                  /\ Len(after) = Cardinality(Kept(before))
                  /\ \A k \in Kept(before) :
                        after[Cardinality({j \in Kept(before) : j <= k})] = before[k]
                  /\ [units'[id] EXCEPT !.d_artifacts = before,
                                        !.passed = units[id].passed] = units[id]
                  /\ \A other \in DOMAIN units : other # id => units'[other] = units[other]
                  /\ DOMAIN units' = DOMAIN units
                  /\ failure' = failure]_vars

\* The Pruner has forwarded a unit all of whose candidates it removed and
\* a unit of which it removed two candidates and kept one
C6_Witness ==
    \E id1, id2 \in UnitsOf("ReleaseFile") :
        /\ ForwardedBy(id1, "DebDropFailedArtifacts")
        /\ ForwardedBy(id2, "DebDropFailedArtifacts")
        /\ units[id1].d_artifacts = <<>>
        /\ units[id1].resolution = "pending"
        /\ Len(units[id2].d_artifacts) = 1

\* The kind of unit whose resolution Discovery awaits before it emits kind
ParentKind(kind) ==
    CASE kind = "Release" -> "ReleaseFile"
      [] kind \in {"ReleaseArchitecture", "ReleaseComponent"} -> "Release"
      [] kind \in {"PackageIndex", "InstallerFileIndex"} -> "ReleaseComponent"
      [] kind \in {"Package", "InstallerPackage"} -> "PackageIndex"
      [] kind = "GenericContent" -> "InstallerFileIndex"
      [] kind = "PackageReleaseComponent" -> "Package"
      [] OTHER -> "none"

\* C7: every unit but a ReleaseFile has a parent unit of the kind above it
\* that was emitted earlier and whose resolution future has resolved.
C7_ParentResolved ==
    \A id \in DOMAIN units :
        IF units[id].kind = "ReleaseFile" THEN units[id].parent = 0
        ELSE /\ units[id].parent \in 1..(id - 1)
             /\ units[units[id].parent].kind = ParentKind(units[id].kind)
             /\ units[units[id].parent].resolution # "pending"

\* Two architecture branches of one component have each emitted a
\* PackageReleaseComponent
C7_Witness ==
    \E id1, id2 \in UnitsOf("PackageReleaseComponent") :
        /\ units[id1].task # units[id2].task
        /\ tasks[units[id1].task].parent = tasks[units[id2].task].parent

\* What the repository serves as file filename of the distribution
Served(distribution, filename) ==
    Url(join(ReleaseDir(distribution), filename)) \in DOMAIN world.files

ServedBytes(distribution, filename) ==
    world.files[Url(join(ReleaseDir(distribution), filename))]

\* Neither InRelease nor the pair of Release and Release.gpg verifies
NeitherVerifies(distribution) ==
    /\ ~(/\ Served(distribution, "InRelease")
         /\ VerifyClearSigned(ServedBytes(distribution, "InRelease")))
    /\ ~(/\ Served(distribution, "Release")
         /\ Served(distribution, "Release.gpg")
         /\ VerifyDetached(ServedBytes(distribution, "Release.gpg"),
                           ServedBytes(distribution, "Release")))

\* C8 as stated: with a key configured and no release file that verifies,
\* the ReleaseFile unit the Verifier has handled is resolved to None and
\* the sync has not failed.
C8_SkippedNotCrashed ==
    \A id \in UnitsOf("ReleaseFile") :
        (/\ HasKey
         /\ NeitherVerifies(units[id].distribution)
         /\ HandledBy(id, "DebUpdateReleaseFileAttributes")) =>
            /\ failure = NoFailure
            /\ units[id].resolution = "None"

\* C8, amended: with a key configured and no release file that verifies,
\* the Verifier raises when it handles the ReleaseFile unit (NoReleaseFile,
\* or AttributeError when Release was downloaded and Release.gpg was not):
\* the sync fails, the unit is neither forwarded nor resolved, and
\* Discovery emits no other unit for the distribution.
C8_Raises ==
    \A id \in UnitsOf("ReleaseFile") :
        (HasKey /\ NeitherVerifies(units[id].distribution)) =>
            /\ units[id].resolution = "pending"
            /\ ~ForwardedBy(id, "DebUpdateReleaseFileAttributes")
            /\ \A other \in DOMAIN units :
                  units[other].distribution = units[id].distribution => other = id
            /\ HandledBy(id, "DebUpdateReleaseFileAttributes") =>
                  /\ failure.stage = "DebUpdateReleaseFileAttributes"
                  /\ failure.unit = id
                  /\ failure.exc =
                        IF /\ Served(units[id].distribution, "Release")
                           /\ ~Served(units[id].distribution, "Release.gpg")
                        THEN "AttributeError"
                        ELSE "NoReleaseFile"

\* With a key and two distributions, the Verifier has raised NoReleaseFile
\* for one while the other has its Release unit
C8_Witness ==
    /\ HasKey
    /\ failure.exc = "NoReleaseFile"
    /\ NeitherVerifies(units[failure.unit].distribution)
    /\ \E other \in UnitsOf("Release") :
          units[other].distribution # units[failure.unit].distribution

\* C9 as stated: a coroutine of Discovery that has raised or returned has
\* no sub-task that is still running or that was created and never awaited.
C9_SiblingsCancelled ==
    \A t \in DOMAIN tasks :
        tasks[t].st \in {"raised", "done"} =>
            \A c \in Children(t) : tasks[c].st \notin {"running", "created"}

\* C10: without a key, a ReleaseFile unit the Verifier has handled that has
\* both Release and InRelease among its candidates is forwarded with the
\* relative_path and the sha256 of InRelease.
C10_InReleaseWins ==
    \A id \in UnitsOf("ReleaseFile") :
        LET d == units[id]
            named(n) == {k \in DOMAIN d.d_artifacts :
                            basename(d.d_artifacts[k].relative_path) = n}
        IN  (/\ ~HasKey
             /\ HandledBy(id, "DebUpdateReleaseFileAttributes")
             /\ named("Release") # {}
             /\ named("InRelease") # {}) =>
                /\ ForwardedBy(id, "DebUpdateReleaseFileAttributes")
                /\ \A k \in named("InRelease") :
                      /\ d.relative_path = d.d_artifacts[k].relative_path
                      /\ d.sha256 = d.d_artifacts[k].artifact.sha256
                      /\ d.sha256 = Sha256(ServedBytes(d.distribution, "InRelease"))

\* Without a key the Verifier has forwarded a unit with Release, InRelease
\* and Release.gpg, after a unit with Release and InRelease only
C10_Witness ==
    /\ ~HasKey
    /\ \E id1, id2 \in UnitsOf("ReleaseFile") :
          /\ id1 < id2
          /\ ForwardedBy(id1, "DebUpdateReleaseFileAttributes")
          /\ ForwardedBy(id2, "DebUpdateReleaseFileAttributes")
          /\ Len(units[id1].d_artifacts) = 2
          /\ Len(units[id2].d_artifacts) = 3
          /\ basename(units[id1].d_artifacts[1].relative_path) = "Release"
          /\ basename(units[id1].d_artifacts[2].relative_path) = "InRelease"

\* The file names of the candidates of unit d, in list order
NamesOf(d) ==
    [k \in DOMAIN d.d_artifacts |-> basename(d.d_artifacts[k].relative_path)]

\* C11: with a key configured, a ReleaseFile unit whose InRelease fails the
\* clear-sign verification and whose Release verifies against Release.gpg
\* is forwarded by the Verifier without a failure, with InRelease removed
\* from its candidates and the relative_path and sha256 of Release.
C11_ReleaseAfterBadInRelease ==
    \A id \in UnitsOf("ReleaseFile") :
        LET d == units[id]
            dist == d.distribution
        IN  (/\ HasKey
             /\ Served(dist, "InRelease")
             /\ ~VerifyClearSigned(ServedBytes(dist, "InRelease"))
             /\ Served(dist, "Release")
             /\ Served(dist, "Release.gpg")
             /\ VerifyDetached(ServedBytes(dist, "Release.gpg"),
                               ServedBytes(dist, "Release"))
             /\ HandledBy(id, "DebUpdateReleaseFileAttributes")) =>
                /\ ForwardedBy(id, "DebUpdateReleaseFileAttributes")
                /\ failure.unit # id
                /\ NamesOf(d) = <<"Release", "Release.gpg">>
                /\ d.relative_path = join(ReleaseDir(dist), "Release")
                /\ d.sha256 = Sha256(ServedBytes(dist, "Release"))

\* With a key, the Verifier has forwarded a unit with Release as its
\* representative that arrived with a tampered InRelease, after a unit it
\* forwarded with InRelease
C11_Witness ==
    /\ HasKey
    /\ \E id1, id2 \in UnitsOf("ReleaseFile") :
          /\ id1 < id2
          /\ ForwardedBy(id1, "DebUpdateReleaseFileAttributes")
          /\ basename(units[id1].relative_path) = "InRelease"
          /\ ForwardedBy(id2, "DebUpdateReleaseFileAttributes")
          /\ Served(units[id2].distribution, "InRelease")
          /\ ~VerifyClearSigned(ServedBytes(units[id2].distribution, "InRelease"))
          /\ basename(units[id2].relative_path) = "Release"

\* The candidates unit d arrived with at the Materializer (the artifact the
\* Materializer appends has the name of a temporary file as its url)
Arrived(d) == {k \in DOMAIN d.d_artifacts : d.d_artifacts[k].url # "tmp"}

CompressedOf(d) ==
    {k \in Arrived(d) : splitext_ext(d.d_artifacts[k].relative_path) \in Compressed}

\* The Materializer has handled unit id by decompressing candidate k: it
\* forwarded the unit with the decompressed bytes appended when they have
\* the declared sha256, and raised the digest-validation error otherwise
DecompressedFrom(id, k) ==
    LET d == units[id]
        da == d.d_artifacts[k]
        content == Decompress(splitext_ext(da.relative_path), da.artifact.file)
    IN  IF Sha256(content) = d.sha256
        THEN /\ ForwardedBy(id, "DebUpdatePackageIndexAttributes")
             /\ Len(d.d_artifacts) = Cardinality(Arrived(d)) + 1
             /\ d.d_artifacts[Len(d.d_artifacts)].artifact = SavedArtifact(content)
        ELSE /\ ~ForwardedBy(id, "DebUpdatePackageIndexAttributes")
             /\ failure.exc = "DigestValidationError"
             /\ failure.unit = id
             /\ Arrived(d) = DOMAIN d.d_artifacts

NeedsDecompression(id) ==
    /\ HandledBy(id, "DebUpdatePackageIndexAttributes")
    /\ \A k \in Arrived(units[id]) :
          units[id].d_artifacts[k].artifact.sha256 # units[id].sha256
    /\ CompressedOf(units[id]) # {}

C13_DigestMismatchRaises ==
    \A id \in UnitsOf("PackageIndex") :
        LET d == units[id]
        IN  \A k \in CompressedOf(d) :
              LET da == d.d_artifacts[k]
                  content == Decompress(splitext_ext(da.relative_path), da.artifact.file)
              IN  (/\ NeedsDecompression(id)
                   /\ \A j \in CompressedOf(d) : k <= j
                   /\ Sha256(content) # d.sha256) =>
                      /\ failure.exc = "DigestValidationError"
                      /\ failure.stage = "DebUpdatePackageIndexAttributes"
                      /\ failure.unit = id
                      /\ Arrived(d) = DOMAIN d.d_artifacts
                      /\ \A j \in DOMAIN d.d_artifacts :
                            d.d_artifacts[j].artifact.file # content
                      /\ ~ForwardedBy(id, "DebUpdatePackageIndexAttributes")
                      /\ d.resolution = "pending"

\* The Materializer has raised the digest-validation error for a unit of
\* Discovery whose Packages.gz holds an older document
C13_Witness ==
    /\ failure.exc = "DigestValidationError"
    /\ failure.stage = "DebUpdatePackageIndexAttributes"
    /\ units[failure.unit].kind = "PackageIndex"
    /\ units[failure.unit].task \in DOMAIN tasks
    /\ \E k \in CompressedOf(units[failure.unit]) :
          /\ basename(units[failure.unit].d_artifacts[k].relative_path) = "Packages.gz"
          /\ startswith(units[failure.unit].d_artifacts[k].artifact.file, "gz(old:")

\* C14 as stated: whenever sync_sources is set on the remote, Discovery
\* never completes successfully, whatever the distributions, the release
\* files and the component and architecture filters are, also when the
\* filtered component catalog of a distribution is empty.
C14_SyncSourcesNeverCompletes ==
    remote.sync_sources => tasks["run"].st # "done"

\* C15: for a PackageIndex unit that resolved to None, the coroutine of
\* Discovery that awaits it emits no other unit; with
\* ignore_missing_package_indices it returns and raises nothing, so that
\* no coroutine and no stage fails with NoPackageIndexFile; without the
\* flag it raises NoPackageIndexFile naming the directory of the index.
C15_MissingPackageIndex ==
    \A id \in UnitsOf("PackageIndex") :
        LET d == units[id]
            t == d.task
        IN  d.resolution = "None" =>
              /\ \A other \in DOMAIN units : units[other].task = t => other = id
              /\ IF remote.ignore_missing_package_indices
                 THEN /\ tasks[t].st \in {"running", "done"}
                      /\ tasks[t].exc = "none"
                      /\ \A c \in DOMAIN tasks : tasks[c].exc # "NoPackageIndexFile"
                      /\ failure.exc # "NoPackageIndexFile"
                 ELSE tasks[t].st # "running" =>
                        /\ tasks[t].st = "raised"
                        /\ tasks[t].exc = "NoPackageIndexFile"
                        /\ tasks[t].arg =
                              join(ReleaseDir(d.distribution),
                                   join(d.component, "binary-" \o d.architecture))

\* With the flag, the coroutine of the amd64 index, which resolved to None,
\* has returned, the coroutine of the arm64 index has emitted a package and
\* Discovery has completed
C15_Witness ==
    \E id \in UnitsOf("PackageIndex") :
        /\ units[id].resolution = "None"
        /\ units[id].architecture = "amd64"
        /\ remote.ignore_missing_package_indices
        /\ tasks[units[id].task].st = "done"
        /\ tasks["run"].st = "done"
        /\ \E p \in UnitsOf("Package") :
              /\ units[p].task # units[id].task
              /\ tasks[units[p].task].architecture = "arm64"
              /\ tasks[units[p].task].parent = tasks[units[id].task].parent

\* Without the flag, the sync has failed with the NoPackageIndexFile that
\* the coroutine of the amd64 index raised
MissingIndexRaised ==
    \E id \in UnitsOf("PackageIndex") :
        /\ units[id].resolution = "None"
        /\ ~remote.ignore_missing_package_indices
        /\ tasks[units[id].task].st = "raised"
        /\ failure.exc = "NoPackageIndexFile"
        /\ failure.arg = "dists/stable/main/binary-amd64"

\* v is one of the whitespace separated elements of the string s
IsToken(v, s) ==
    \E i \in 1..Len(s) :
        /\ i + Len(v) - 1 <= Len(s)
        /\ SubSeq(s, i, i + Len(v) - 1) = v
        /\ (i = 1 \/ Char(s, i - 1) = " ")
        /\ (i + Len(v) - 1 = Len(s) \/ Char(s, i + Len(v)) = " ")

\* The elements of values that the filter lets pass
Passing(values, filter_values) ==
    {v \in ValueTokens :
        /\ IsToken(v, values)
        /\ \/ filter_values = ""
           \/ IsToken(v, filter_values)
           \/ \E f \in FilterTokens :
                 /\ IsToken(f, filter_values)
                 /\ v \in {f, "updates/" \o f}}

\* What _handle_distribution has got from _filter_split for the
\* architectures: the ReleaseArchitecture units it has put, in the order of
\* the puts, and those it has yet to put
ArchitectureList(t) ==
    LET ids == {id \in UnitsOf("ReleaseArchitecture") : units[id].task = t}
        put_so_far == [k \in 1..Cardinality(ids) |->
                         units[CHOOSE id \in ids :
                                  Cardinality({j \in ids : j <= id}) = k].architecture]
    IN  put_so_far \o (IF tasks[t].pc = "architectures" THEN tasks[t].todo ELSE <<>>)

\* C16: the list _filter_split returns is sorted, has no duplicate and
\* holds exactly the elements v of values for which filter_values is the
\* empty string or v or the basename of v is an element of filter_values;
\* in particular it is the same for every order and repetition of the
\* elements of either string, it holds every element of values when
\* filter_values is the empty string, and it holds updates/main for the
\* filter main.
C16_FilterSplit ==
    LET t == DistTask("stable")
        release_file == units[tasks[t].release_file]
        result == ArchitectureList(t)
        components == {tasks[c].component : c \in Children(t)}
    IN  tasks[t].pc # "release" =>
          /\ \A k \in 1..(Len(result) - 1) : StrLess(result[k], result[k + 1])
          /\ Range(result) = Passing(release_file.architectures, remote.architectures)
          /\ tasks[t].pc # "architectures" =>
                components = Passing(release_file.components, remote.components)
          /\ remote.architectures = "" =>
                Range(result) = {v \in ValueTokens : IsToken(v, release_file.architectures)}
          /\ (/\ IsToken("updates/main", release_file.architectures)
              /\ IsToken("main", remote.architectures)) =>
                "updates/main" \in Range(result)

\* The release file lists updates/main, contrib and updates/main again,
\* the filter is main: the result is updates/main alone; put, and the one
\* component coroutine is gathered
C16_Witness ==
    LET t == DistTask("stable")
    IN  /\ units[tasks[t].release_file].architectures = "updates/main contrib updates/main"
        /\ remote.architectures = "main"
        /\ tasks[t].pc = "gather"
        /\ ArchitectureList(t) = <<"updates/main">>
        /\ {tasks[c].component : c \in Children(t)} = {"updates/main"}

\* The package index directory of a component, an infix and an architecture
\* is one for which the release document of the distribution references an
\* index file
Referenced(distribution, component, infix, architecture) ==
    \E k \in DOMAIN IndexFiles :
        join(join3(basename(component), infix, "binary-" \o architecture), IndexFiles[k])
            \in DOMAIN world.release_docs[ReleaseDocOf(distribution)].refs

\* The components and the architectures of the filtered catalogs
Filtered(distribution) ==
    LET doc == world.release_docs[ReleaseDocOf(distribution)]
    IN  Range(_filter_split(doc.Components, remote.components))
        \X Range(_filter_split(doc.Architectures, remote.architectures))

Infixes == IF remote.sync_udebs THEN {"", "debian-installer"} ELSE {""}

\* (component, architecture, infix) of a PackageIndex unit
IndexKey(d) == <<d.component, d.architecture, d.infix>>

\* A step that adds a PackageIndex unit adds one for an element of
\* expected, a set of (component, architecture, infix), for which there is
\* no PackageIndex unit yet
PutsOnly(expected) ==
    (/\ Len(units') = Len(units) + 1
     /\ units'[Len(units')].kind = "PackageIndex") =>
        /\ IndexKey(units'[Len(units')]) \in expected
        /\ \A id \in UnitsOf("PackageIndex") :
              IndexKey(units[id]) # IndexKey(units'[Len(units')])

\* Once Discovery has completed there is a PackageIndex unit for each
\* element of expected
PutAll(expected) ==
    tasks["run"].st = "done" =>
        \A e \in expected : \E id \in UnitsOf("PackageIndex") : IndexKey(units[id]) = e

\* The pairs of the filtered catalogs for which the release file references
\* an index file, with no infix and, if sync_udebs is set, with the infix
\* debian-installer
PerPair ==
    {<<p[1], p[2], x>> : p \in {p \in Filtered("stable") :
                                   Referenced("stable", p[1], "", p[2])},
                         x \in Infixes}

\* The pairs of the filtered catalogs with the infixes for which the
\* release file references an index file in the directory of the infix
PerDirectory ==
    {e \in {<<p[1], p[2], x>> : p \in Filtered("stable"), x \in Infixes} :
        Referenced("stable", e[1], e[3], e[2])}

\* C17 as stated: Discovery emits one PackageIndex unit for each
\* (component, architecture) of the filtered catalogs for which the release
\* file references an index file and, if and only if sync_udebs is set, one
\* more with the infix debian-installer for each such pair, and no other.
C17_OnePerPair ==
    [][PutsOnly(PerPair)]_vars /\ [](PutAll(PerPair))

\* C17, amended: Discovery emits one PackageIndex unit for each (component,
\* architecture) of the filtered catalogs and each infix (none, and
\* debian-installer if and only if sync_udebs is set) for which the release
\* file references an index file in the directory of that component, infix
\* and architecture, and no other; with components main and contrib,
\* architectures amd64 and arm64 and one Packages.gz each there are four.
C17_OnePerDirectory ==
    /\ [][PutsOnly(PerDirectory)]_vars
    /\ [](PutAll(PerDirectory))
    /\ []((/\ tasks["run"].st = "done"
           /\ Filtered("stable") = {"contrib", "main"} \X {"amd64", "arm64"}
           /\ \A p \in Filtered("stable") : Referenced("stable", p[1], "", p[2])
           /\ ~remote.sync_udebs) =>
               Cardinality(UnitsOf("PackageIndex")) = 4)

\* Discovery has completed with the four PackageIndex units of main and
\* contrib for amd64 and arm64
C17_Witness ==
    /\ tasks["run"].st = "done"
    /\ Filtered("stable") = {"contrib", "main"} \X {"amd64", "arm64"}
    /\ Cardinality(UnitsOf("PackageIndex")) = 4
    /\ \A p \in Filtered("stable") :
          \E id \in UnitsOf("PackageIndex") :
              /\ units[id].component = p[1]
              /\ units[id].architecture = p[2]
              /\ NamesOf(units[id]) = <<"Packages.gz">>

C19_NoReleaseFile ==
    \A id \in UnitsOf("ReleaseFile") :
        LET d == units[id]
            dist == d.distribution
        IN  (/\ ~HasKey
             /\ ~Served(dist, "Release")
             /\ ~Served(dist, "InRelease")
             /\ HandledBy(id, "DebUpdateReleaseFileAttributes")) =>
                /\ failure = [exc |-> "NoReleaseFile",
                              stage |-> "DebUpdateReleaseFileAttributes",
                              unit |-> id, code |-> 0, arg |-> dist]
                /\ d.d_artifacts = <<>>
                /\ d.relative_path = ""
                /\ d.sha256 = ""
                /\ ~ForwardedBy(id, "DebUpdateReleaseFileAttributes")
                /\ d.resolution = "pending"

\* Without a key, the Verifier has raised NoReleaseFile for a unit that
\* arrived with Release.gpg alone, after a unit it forwarded
C19_Witness ==
    /\ ~HasKey
    /\ failure.exc = "NoReleaseFile"
    /\ failure.unit > 1
    /\ failure.arg = units[failure.unit].distribution
    /\ Served(units[failure.unit].distribution, "Release.gpg")
    /\ ~Served(units[failure.unit].distribution, "Release")
    /\ ~Served(units[failure.unit].distribution, "InRelease")
    /\ ForwardedBy(1, "DebUpdateReleaseFileAttributes")

\* C20: a PackageIndex unit that the Materializer has handled and that had
\* no candidate is resolved to None and is not put: no later stage handles
\* it and the Materializer has not raised for it.
C20_EmptyIndexDropped ==
    \A id \in UnitsOf("PackageIndex") :
        LET d == units[id]
        IN  (/\ HandledBy(id, "DebUpdatePackageIndexAttributes")
             /\ d.d_artifacts = <<>>) =>
                /\ d.resolution = "None"
                /\ ~ForwardedBy(id, "DebUpdatePackageIndexAttributes")
                /\ d.passed[Len(d.passed)] = "DebUpdatePackageIndexAttributes"
                /\ ~HandledBy(id, "ContentSaver")
                /\ failure.unit # id

\* The Materializer has resolved a PackageIndex unit without candidates to
\* None and has then forwarded the next PackageIndex unit
C20_Witness ==
    \E id1, id2 \in UnitsOf("PackageIndex") :
        /\ id1 < id2
        /\ units[id1].d_artifacts = <<>>
        /\ units[id1].resolution = "None"
        /\ units[id1].task \in DOMAIN tasks
        /\ ForwardedBy(id2, "DebUpdatePackageIndexAttributes")
        /\ failure = NoFailure

\* The units a coroutine has put for the paragraphs of its package index
PackageUnitsOf(t) ==
    {q \in DOMAIN units :
        units[q].task = t /\ units[q].kind \in {"Package", "InstallerPackage"}}

\* C21: a PackageReleaseComponent unit is for a unit its coroutine put
\* that resolved to a Package, never for an InstallerPackage; it is put
\* after every package unit of its package index, the associations of an
\* index are put in the order of their package units, one for each, and
\* once the coroutine has returned every unit that resolved to a Package
\* has its association.
C21_Associations ==
    /\ \A id \in UnitsOf("PackageReleaseComponent") :
          LET t == units[id].task
              p == units[id].parent
          IN  /\ p \in PackageUnitsOf(t)
              /\ units[p].kind = "Package"
              /\ units[p].resolution = "content"
              /\ \A q \in PackageUnitsOf(t) : q < id
              /\ \A id2 \in UnitsOf("PackageReleaseComponent") :
                    (units[id2].task = t /\ id < id2) => p < units[id2].parent
    /\ \A t \in DOMAIN tasks :
          (tasks[t].fn = "_handle_package_index" /\ tasks[t].st = "done") =>
              \A q \in PackageUnitsOf(t) :
                  units[q].kind = "Package" =>
                      \E id \in UnitsOf("PackageReleaseComponent") :
                          units[id].task = t /\ units[id].parent = q

\* A coroutine has returned after it put an InstallerPackage and then a
\* Package, and there is the one association of the Package
C21_Witness ==
    \E t \in DOMAIN tasks :
        /\ tasks[t].fn = "_handle_package_index"
        /\ tasks[t].st = "done"
        /\ \E q1, q2 \in PackageUnitsOf(t) :
              /\ q1 < q2
              /\ units[q1].kind = "InstallerPackage"
              /\ units[q2].kind = "Package"
              /\ units[q1].resolution = "content"
        /\ Cardinality({id \in UnitsOf("PackageReleaseComponent") : units[id].task = t}) = 1

\* The package and the component a PackageReleaseComponent unit associates
Edge(id) == <<units[id].relative_path, units[id].sha256, units[id].release_component>>

\* C22 as stated: no two PackageReleaseComponent units are for the same
\* package and the same component.
C22_OncePerPair ==
    \A id1, id2 \in UnitsOf("PackageReleaseComponent") :
        Edge(id1) = Edge(id2) => id1 = id2

\* C22, amended: there is one PackageReleaseComponent unit for each package
\* unit a package index coroutine has put, of the package of that unit and
\* the component of that coroutine; no two are for the same package unit.
C22_OncePerPackageUnit ==
    \A id1 \in UnitsOf("PackageReleaseComponent") :
        LET p == units[id1].parent
        IN  /\ units[p].task = units[id1].task
            /\ Edge(id1) = <<units[p].relative_path, units[p].sha256,
                             tasks[units[id1].task].release_component>>
            /\ \A id2 \in UnitsOf("PackageReleaseComponent") :
                  units[id2].parent = p => id1 = id2

\* The coroutines of the package indices of two architectures of one
\* component have each put the association of the same package
C22_Witness ==
    \E id1, id2 \in UnitsOf("PackageReleaseComponent") :
        /\ id1 # id2
        /\ Edge(id1) = Edge(id2)
        /\ tasks[units[id1].task].architecture # tasks[units[id2].task].architecture
        /\ tasks[units[id1].task].parent = tasks[units[id2].task].parent

\* The paragraphs of the package index of coroutine t
IndexParagraphs(t) ==
    world.packages_docs[PackagesDocOf(tasks[t].distribution, package_index_dir_of(t))]

\* The paragraph has the fields Filename, SHA256 and Package and the mapper
\* accepts it
Accepted(package_paragraph) ==
    {"Filename", "SHA256", "Package", "Version"} \subseteq DOMAIN package_paragraph

DebSuffix(package_paragraph) ==
    \/ endswith(package_paragraph.Filename, ".deb")
    \/ endswith(package_paragraph.Filename, ".udeb")

\* C23 as stated: in a package index whose file names all end in .deb or
\* .udeb, a paragraph without Filename, SHA256 or Package, or one the
\* mapper rejects, is skipped: the coroutine does not raise, and once it
\* has returned it has put one unit for each of the other paragraphs.
C23_InvalidParagraphSkipped ==
    \A t \in DOMAIN tasks :
        (/\ tasks[t].fn = "_handle_package_index"
         /\ tasks[t].pc \in {"parse", "assoc", "end"}
         /\ \A k \in DOMAIN IndexParagraphs(t) :
               "Filename" \in DOMAIN IndexParagraphs(t)[k] =>
                   DebSuffix(IndexParagraphs(t)[k])) =>
            /\ tasks[t].st # "raised"
            /\ tasks[t].st = "done" =>
                  Cardinality(PackageUnitsOf(t)) =
                      Cardinality({k \in DOMAIN IndexParagraphs(t) :
                                      Accepted(IndexParagraphs(t)[k])})

\* C24 as stated: the unit a package index coroutine has put for a
\* paragraph is a Package if and only if the file name of the paragraph
\* ends in .deb, and an InstallerPackage if and only if it ends in .udeb.
C24_ClassBySuffix ==
    \A id \in DOMAIN units :
        units[id].kind \in {"Package", "InstallerPackage"} =>
            /\ units[id].kind = "Package" <=> endswith(units[id].relative_path, ".deb")
            /\ units[id].kind = "InstallerPackage" <=>
                  endswith(units[id].relative_path, ".udeb")

\* C26 as stated: with ignore_missing_package_indices, a PackageIndex unit
\* that left the Pruner without any of Packages, Packages.gz and
\* Packages.xz, with or without the Release file of its directory, never
\* fails the sync: no stage raises for it and NoPackageIndexFile is raised
\* nowhere.
C26_MissingIndexIgnored ==
    \A id \in UnitsOf("PackageIndex") :
        LET d == units[id]
        IN  (/\ remote.ignore_missing_package_indices
             /\ HandledBy(id, "DebDropFailedArtifacts")
             /\ Range(NamesOf(d)) \cap {"Packages", "Packages.gz", "Packages.xz"} = {}) =>
                /\ failure.unit # id
                /\ failure.exc # "NoPackageIndexFile"
                /\ \A t \in DOMAIN tasks : tasks[t].exc # "NoPackageIndexFile"

EndingStages ==
    {"DebDropFailedArtifacts", "DebUpdateReleaseFileAttributes",
     "DebUpdatePackageIndexAttributes"}

\* How often unit id stands in the queue of stage i
TimesQueued(id, i) == Cardinality({k \in DOMAIN in_q[i] : in_q[i][k] = id})

\* A unit the Pruner, the Verifier or the Materializer has handled was
\* handled once and was put into the next queue once, or was resolved to
\* None, or is the unit the stage raised for
HandledOnce ==
    \A id \in DOMAIN units :
        LET passed == units[id].passed
        IN  /\ \A j, k \in DOMAIN passed :
                  (passed[j] = passed[k] /\ passed[j] \in EndingStages) => j = k
            /\ \A i \in 2..(NStages + 1) : TimesQueued(id, i) <= 1
            /\ \A k \in DOMAIN passed :
                  passed[k] \in EndingStages =>
                      \/ k < Len(passed)
                      \/ TimesQueued(id, k + 1) = 1
                      \/ units[id].resolution = "None"
                      \/ (failure.unit = id /\ failure.stage = passed[k])

\* The sync has failed, or the first stage has returned and every future
\* is resolved
Settled ==
    \/ failure # NoFailure
    \/ /\ tasks["run"].st = "done"
       /\ \A id \in DOMAIN units : units[id].resolution # "pending"

\* C25: every unit the Pruner, the Verifier or the Materializer has
\* handled is put into the next queue exactly once, or has its future
\* resolved to None, or is the unit the stage raised for; and when every
\* stage and every coroutine that can go on is run, the sync eventually
\* fails or the first stage returns with every future resolved: no
\* coroutine of the first stage waits forever.
C25_NoUnitLost == [](HandledOnce) /\ <>[](Settled)

\* The Materializer has resolved a PackageIndex unit to None without
\* putting it, and the first stage has returned with every future resolved
C25_Witness ==
    /\ failure = NoFailure
    /\ tasks["run"].st = "done"
    /\ \A id \in DOMAIN units : units[id].resolution # "pending"
    /\ \E id \in UnitsOf("PackageIndex") :
          /\ units[id].resolution = "None"
          /\ units[id].passed[Len(units[id].passed)] = "DebUpdatePackageIndexAttributes"
    /\ \E id \in UnitsOf("Package") :
          HandledBy(id, "DebUpdatePackageIndexAttributes")
====
